---- MODULE Spec2Model ----
(***************************************************************************)
(* A model of the vessel dependency-injection container: the name-keyed    *)
(* registry with its per-registration locks (container_impl.go), the       *)
(* dependency graph and its topological sort, and scopes.                   *)
(*                                                                         *)
(* Threads run the container's operations as call stacks of frames; one    *)
(* step of a thread is the code between two points at which it can block   *)
(* (a mutex acquisition) or hands control to user code (a factory).        *)
(* Factories, Start/Stop hooks and middleware hooks are user code: their   *)
(* outcome is chosen nondeterministically at each invocation.              *)
(***************************************************************************)
EXTENDS Integers, Sequences, FiniteSets, TLC

\* ------------------------------------------------------------------ bounds
NumThreads == 2
MaxCalls == 2
MaxLifecycleCalls == 3
MaxDepth == 1
MaxMiddleware == 1

Threads == 1..NumThreads
Names == {"a", "b"}
GraphNames == Names \cup {"c"}
ScopeIds == {1, 2}

VARIABLES
    services,     \* c.services: name -> registration (exists = key present)
    graph,        \* c.graph: nodes and registration order
    middleware,   \* c.middleware: number of middleware in the chain
    cstarted,     \* c.started
    cmu,          \* c.mu
    regmu,        \* reg.mu of every registration
    scopes,       \* the scopes created by BeginScope
    stack,        \* per thread: the frames of the calls in progress
    ret,          \* per thread: the value and error the last finished call returned
    calls,        \* per thread: the finished top-level calls with their results
    nextInst,     \* the identity of the next instance a factory creates
    factories,    \* per scope (0: the container) and name: the factory's invocations and results
    hooks,        \* the Start/Stop hook invocations, in order
    regErr,       \* the error the last Register call returned
    lastSort,     \* what the last sort called on the graph itself returned
    typeRegistry, \* c.typeRegistry: type key -> registration, and the registrations
    constructed,  \* the number of calls of the constructors given to ProvideConstructor
    provided      \* the ProvideConstructor calls made, with the keys registered before each

vars == <<services, graph, middleware, cstarted, cmu, regmu, scopes, stack, ret,
          calls, nextInst, factories, hooks, regErr, lastSort, typeRegistry, constructed, provided>>

\* ------------------------------------------------------------ plain values
\* An instance: id 0 is nil; svc says whether it implements di.Service, disp
\* whether it implements di.Disposable.
NilInst == [id |-> 0, svc |-> FALSE, disp |-> FALSE]
NewInst(id, svc) == [id |-> id, svc |-> svc, disp |-> FALSE]
NewDisposable(id) == [id |-> id, svc |-> FALSE, disp |-> TRUE]

\* errors.go: errors carry a kind, the service name, the operation and the cause.
NoErr == [kind |-> "nil", name |-> "", op |-> "", cause |-> ""]
UserErr(kind) == [kind |-> kind, name |-> "", op |-> "", cause |-> ""]
ErrServiceNotFound(name) == [kind |-> "ServiceNotFound", name |-> name, op |-> "", cause |-> ""]
ErrServiceAlreadyExists(name) == [kind |-> "ServiceAlreadyExists", name |-> name, op |-> "", cause |-> ""]
ErrCircularDependency(name) == [kind |-> "CircularDependency", name |-> name, op |-> "", cause |-> ""]
ErrInvalidFactory == UserErr("InvalidFactory")
ErrScopeEnded == UserErr("ScopeEnded")
ErrScopeCleanup == UserErr("ScopeCleanupErrors")
ErrEmptyName == UserErr("EmptyName")
ErrScopedFromContainer(name) == [kind |-> "ScopedFromContainer", name |-> name, op |-> "", cause |-> ""]
NewServiceError(name, op, err) ==
    [kind |-> "ServiceError", name |-> name, op |-> op,
     cause |-> IF err.kind = "ServiceError" THEN err.op ELSE err.kind]

\* --------------------------------------------------------------- sync.RWMutex
\* w is the thread holding the write lock (0: none), r the threads holding a read lock.
FreeMutex == [w |-> 0, r |-> {}]
CanRLock(m) == m.w = 0
RLock(m, t) == [m EXCEPT !.r = @ \cup {t}]
RUnlock(m, t) == [m EXCEPT !.r = @ \ {t}]
CanLock(m) == m.w = 0 /\ m.r = {}
Lock(m, t) == [m EXCEPT !.w = t]
Unlock(m) == [m EXCEPT !.w = 0]

\* ------------------------------------------------------------ DependencyGraph
NoNode == [present |-> FALSE, dependencies |-> <<>>, deps |-> <<>>]
NewDependencyGraph == [nodes |-> [n \in GraphNames |-> NoNode], order |-> <<>>]

\* di.DepNames: the names of a list of dependency specs.
DepNames(deps) == [k \in 1..Len(deps) |-> deps[k].name]

AddNodeWithDeps(g, name, deps) ==
    [nodes |-> [g.nodes EXCEPT ![name] =
                   [present |-> TRUE, dependencies |-> DepNames(deps), deps |-> deps]],
     order |-> Append(g.order, name)]

\* The traversal state of one sort: the visited and visiting marks, the result so
\* far, and the error (the name that closed a cycle) once one is found.
NewSort == [visited |-> {}, visiting |-> {}, result |-> <<>>, err |-> NoErr]

\* A traversal that takes every name for a node of the graph.
NeverMissing(g, name) == FALSE

\* visit's test "node == nil": the name was never added to the graph.
NodeMissing(g, name) == name \notin GraphNames \/ ~g.nodes[name].present

\* A sort that returns, with the error, the names it had placed so far.
PartialOrder(st) == st.result

\* TopologicalSort's "return nil, err": no order comes with an error.
OrderOnError(st) == <<>>

\* A sort that goes through the names from the last one added to the first.
ReverseOrder(g) == [k \in 1..Len(g.order) |-> g.order[Len(g.order) + 1 - k]]

\* TopologicalSort's "for _, name := range g.order": the names in the order of
\* their addition.
RegistrationOrder(g) == g.order

RECURSIVE visit(_, _, _)
RECURSIVE visitAll(_, _, _, _)
visit(g, name, st) ==
    IF name \in st.visited THEN st
    ELSE IF name \in st.visiting THEN [st EXCEPT !.err = ErrCircularDependency(name)]
    ELSE IF NodeMissing(g, name) THEN st
    ELSE LET s1 == [st EXCEPT !.visiting = @ \cup {name}]
             s2 == visitAll(g, g.nodes[name].dependencies, 1, s1)
         IN  IF s2.err # NoErr THEN s2
             ELSE [s2 EXCEPT !.visiting = @ \ {name},
                             !.visited = @ \cup {name},
                             !.result = Append(@, name)]

\* The loops "for _, dep := range ..." of visit and of TopologicalSort: visit the
\* names from position k on, stopping at the first error.
visitAll(g, names, k, st) ==
    IF k > Len(names) THEN st
    ELSE LET s1 == visit(g, names[k], st)
         IN  IF s1.err # NoErr THEN s1 ELSE visitAll(g, names, k + 1, s1)

\* TopologicalSort: the order (empty on error) and the error.
TopologicalSort(g) ==
    LET st == visitAll(g, RegistrationOrder(g), 1, NewSort)
    IN  IF st.err # NoErr THEN [order |-> OrderOnError(st), err |-> st.err]
        ELSE [order |-> st.result, err |-> NoErr]

\* di.Eager(name), di.Lazy(name): a dependency spec with its mode.
Eager(name) == [name |-> name, mode |-> "eager"]
Lazy(name) == [name |-> name, mode |-> "lazy"]

\* A mode test that finds no dependency lazy.
NeverLazy(dep) == FALSE

\* dep.Mode.IsLazy()
IsLazy(dep) == dep.mode = "lazy"

\* di.DepsFromNames: every name becomes an eager dependency.
DepsFromNames(names) == [k \in 1..Len(names) |-> Eager(names[k])]

AddNode(g, name, dependencies) ==
    [nodes |-> [g.nodes EXCEPT ![name] =
                   [present |-> TRUE, dependencies |-> dependencies,
                    deps |-> DepsFromNames(dependencies)]],
     order |-> Append(g.order, name)]

RECURSIVE visitEagerOnly(_, _, _)
RECURSIVE visitEagerDeps(_, _, _, _)
RECURSIVE visitAllEagerOnly(_, _, _, _)
visitEagerOnly(g, name, st) ==
    IF name \in st.visited THEN st
    ELSE IF name \in st.visiting THEN [st EXCEPT !.err = ErrCircularDependency(name)]
    ELSE IF NodeMissing(g, name) THEN st
    ELSE LET s1 == [st EXCEPT !.visiting = @ \cup {name}]
             s2 == visitEagerDeps(g, g.nodes[name].deps, 1, s1)
         IN  IF s2.err # NoErr THEN s2
             ELSE [s2 EXCEPT !.visiting = @ \ {name},
                             !.visited = @ \cup {name},
                             !.result = Append(@, name)]

\* The loop "for _, dep := range node.deps" of visitEagerOnly, from position k on.
visitEagerDeps(g, deps, k, st) ==
    IF k > Len(deps) THEN st
    ELSE IF IsLazy(deps[k]) THEN visitEagerDeps(g, deps, k + 1, st)
    ELSE LET s1 == visitEagerOnly(g, deps[k].name, st)
         IN  IF s1.err # NoErr THEN s1 ELSE visitEagerDeps(g, deps, k + 1, s1)

\* The loop "for _, name := range g.order" of TopologicalSortEagerOnly.
visitAllEagerOnly(g, names, k, st) ==
    IF k > Len(names) THEN st
    ELSE LET s1 == visitEagerOnly(g, names[k], st)
         IN  IF s1.err # NoErr THEN s1 ELSE visitAllEagerOnly(g, names, k + 1, s1)

\* TopologicalSortEagerOnly: the order (empty on error) and the error.
TopologicalSortEagerOnly(g) ==
    LET st == visitAllEagerOnly(g, g.order, 1, NewSort)
    IN  IF st.err # NoErr THEN [order |-> OrderOnError(st), err |-> st.err]
        ELSE [order |-> st.result, err |-> NoErr]

\* No sort was called on the graph itself yet.
NoSort == [fn |-> "", order |-> <<>>, err |-> NoErr]

\* --------------------------------------------------------------- typeRegistry
\* The types a constructor is registered for: the result types T and U (concrete
\* types) and an interface I that they implement; the names a key can carry.
ResultTypes == {"T", "U"}
Types == ResultTypes \cup {"I"}
TypeNames == {"", "x"}
TypeKeys == Types \X TypeNames
MaxRegs == 2
RegIds == 1..MaxRegs

\* A typeRegistration that was not created yet; in services, 0 is a missing key.
\* result and params stand for reg.constructor: the type the constructor returns
\* and the types of its parameters.
NoTypeReg == [created |-> FALSE, result |-> "", params |-> <<>>, lifecycle |-> "",
              instance |-> NilInst, constructing |-> FALSE]
newTypeRegistry == [services |-> [k \in TypeKeys |-> 0], regs |-> [r \in RegIds |-> NoTypeReg]]

ErrTypeAlreadyRegistered == UserErr("TypeAlreadyRegistered")
ErrTypeNotRegistered == UserErr("TypeNotRegistered")
ErrTypeCircular == UserErr("TypeCircularDependency")
ErrNoProvider == UserErr("NoProviderForType")
ConstructorErr == UserErr("ConstructorError")

\* A register that finds every key free.
KeyNeverTaken(tr, key) == FALSE

\* typeRegistry.register's test "if _, exists := r.services[key]; exists".
KeyTaken(tr, key) == tr.services[key] # 0

\* typeRegistry.register for the pairs <<key, registration>> from position k on,
\* in order, up to the first key that is registered already.
RECURSIVE registerAll(_, _, _)
registerAll(tr, pairs, k) ==
    IF k > Len(pairs) THEN [registry |-> tr, err |-> NoErr]
    ELSE IF KeyTaken(tr, pairs[k][1]) THEN [registry |-> tr, err |-> ErrTypeAlreadyRegistered]
    ELSE registerAll([tr EXCEPT !.services[pairs[k][1]] = pairs[k][2]], pairs, k + 1)

\* ------------------------------------------------------------ container state
Lifecycles == {"singleton", "transient", "scoped"}

\* A name that is not a key of c.services.
NoReg == [exists |-> FALSE, singleton |-> FALSE, scoped |-> FALSE,
          dependencies |-> <<>>, instance |-> NilInst, started |-> FALSE]

\* newScope: a scope that BeginScope has not created yet has begun = FALSE.
NoInstances == [n \in Names |-> [ok |-> FALSE, inst |-> NilInst]]
NoScope == [begun |-> FALSE, instances |-> NoInstances, context |-> {},
            ended |-> FALSE, mu |-> FreeMutex]

NoRet == [val |-> NilInst, err |-> NoErr]

\* The history of a factory: how often it was invoked, returned an error, returned nil.
FactoryKeys == ({0} \cup ScopeIds) \X Names
NoRuns == [runs |-> 0, errs |-> 0, nils |-> 0]
Invoked(s, name) == [factories EXCEPT ![<<s, name>>].runs = @ + 1]
Returned(s, name, ok, instance) ==
    [factories EXCEPT ![<<s, name>>].errs = IF ok THEN @ ELSE @ + 1,
                      ![<<s, name>>].nils = IF ok /\ instance = NilInst THEN @ + 1 ELSE @]

\* newContainerImpl
Init ==
    /\ services = [n \in Names |-> NoReg]
    /\ graph = NewDependencyGraph
    /\ middleware = 0
    /\ cstarted = FALSE
    /\ cmu = FreeMutex
    /\ regmu = [n \in Names |-> FreeMutex]
    /\ scopes = [s \in ScopeIds |-> NoScope]
    /\ stack = [t \in Threads |-> <<>>]
    /\ ret = [t \in Threads |-> NoRet]
    /\ calls = [t \in Threads |-> <<>>]
    /\ nextInst = 1
    /\ factories = [k \in FactoryKeys |-> NoRuns]
    /\ hooks = <<>>
    /\ regErr = NoErr
    /\ lastSort = NoSort
    /\ typeRegistry = newTypeRegistry
    /\ constructed = 0
    /\ provided = <<>>

\* ------------------------------------------------------------------- frames
NewFrame(fn, name, scope) ==
    [fn |-> fn, name |-> name, pc |-> "begin", scope |-> scope,
     order |-> <<>>, i |-> 0, inst |-> NilInst, err |-> NoErr]

Idle(t) == stack[t] = <<>>

RECURSIVE SumLen(_, _)
SumLen(f, S) == IF S = {} THEN 0 ELSE LET x == CHOOSE y \in S : TRUE IN Len(f[x]) + SumLen(f, S \ {x})

\* The number of top-level calls made so far, finished or in progress.
Started == SumLen(calls, Threads) + Cardinality({t \in Threads : stack[t] # <<>>})

\* The application sets the container up (Register, Use, BeginScope) before it
\* makes its first call.
Setup == Started = 0
Top(t) == stack[t][Len(stack[t])]
At(t, fn, pc) == ~Idle(t) /\ Top(t).fn = fn /\ Top(t).pc = pc

\* The thread's stack with its top frame replaced.
WithTop(t, f) == [stack EXCEPT ![t] = [@ EXCEPT ![Len(@)] = f]]

\* The thread's stack with the top frame replaced by f and a callee pushed on it.
WithCall(t, f, callee) == [stack EXCEPT ![t] = Append([@ EXCEPT ![Len(@)] = f], callee)]

\* The top frame returns (val, err): to its caller through ret, or, for a
\* top-level call, to the application (recorded in calls).
Return(t, val, err) ==
    /\ stack' = [stack EXCEPT ![t] = SubSeq(@, 1, Len(@) - 1)]
    /\ IF Len(stack[t]) = 1
       THEN /\ ret' = [ret EXCEPT ![t] = NoRet]
            /\ calls' = [calls EXCEPT ![t] =
                   Append(@, [fn |-> Top(t).fn, name |-> Top(t).name,
                              scope |-> Top(t).scope, val |-> val, err |-> err])]
       ELSE /\ ret' = [ret EXCEPT ![t] = [val |-> val, err |-> err]]
            /\ calls' = calls

\* The top frame moves on to f without returning.
Goto(t, f) ==
    /\ stack' = WithTop(t, f)
    /\ ret' = [ret EXCEPT ![t] = NoRet]
    /\ calls' = calls

\* ----------------------------------------------------------------- middleware
\* A hook of the chain can fail only if the chain holds a middleware.
MwFails == IF middleware > 0 THEN BOOLEAN ELSE {FALSE}
MwErr == UserErr("MiddlewareError")

\* Use
Use ==
    /\ Setup
    /\ middleware < MaxMiddleware
    /\ CanLock(cmu)
    /\ cmu' = Unlock(Lock(cmu, 1))
    /\ middleware' = middleware + 1
    /\ UNCHANGED <<services, graph, cstarted, regmu, scopes, stack, ret, calls,
                   nextInst, factories, hooks, regErr, lastSort, typeRegistry, constructed, provided>>

\* ------------------------------------------------------------------ Register
\* Register(name, factory, opts...): hasFactory is factory != nil, lifecycle and
\* deps are the merged options.
Register(name, hasFactory, lifecycle, deps) ==
    /\ Setup
    /\ IF name = "" THEN
           /\ regErr' = ErrEmptyName
           /\ UNCHANGED <<services, graph, cmu>>
       ELSE IF ~hasFactory THEN
           /\ regErr' = ErrInvalidFactory
           /\ UNCHANGED <<services, graph, cmu>>
       ELSE
           /\ CanLock(cmu)
           /\ cmu' = Unlock(Lock(cmu, 1))
           /\ IF services[name].exists THEN
                  /\ regErr' = ErrServiceAlreadyExists(name)
                  /\ UNCHANGED <<services, graph>>
              ELSE
                  /\ services' = [services EXCEPT ![name] =
                         [exists |-> TRUE,
                          singleton |-> lifecycle = "singleton",
                          scoped |-> lifecycle = "scoped",
                          dependencies |-> DepNames(deps),
                          instance |-> NilInst,
                          started |-> FALSE]]
                  /\ graph' = AddNodeWithDeps(graph, name, deps)
                  /\ regErr' = NoErr
    /\ UNCHANGED <<middleware, cstarted, regmu, scopes, stack, ret, calls,
                   nextInst, factories, hooks, lastSort, typeRegistry, constructed, provided>>

\* ------------------------------------------------------- Resolve (container)
FactoryErr == UserErr("FactoryError")
StartErr == UserErr("StartError")
StopErr == UserErr("StopError")

\* c.Resolve, after resolveInternal returned (service, err): the afterResolve
\* hooks run, and a failing one replaces the result.
AfterResolve(service, err, mwFail) ==
    IF mwFail THEN [val |-> NilInst, err |-> MwErr] ELSE [val |-> service, err |-> err]

\* One invocation of a Start or Stop hook, as recorded in hooks: ok is the hook's
\* own result, after that of the afterStart hooks; the thread t runs its call-th
\* top-level call, top, and has depth frames.
HookEvent(t, hook, name, inst, ok, mwAfter) ==
    [hook |-> hook, name |-> name, inst |-> inst.id, ok |-> ok, after |-> ~mwAfter,
     t |-> t, call |-> Len(calls[t]) + 1, top |-> stack[t][1].fn, depth |-> Len(stack[t])]

\* The auto-start of an instance: the beforeStart hooks, svc.Start, the afterStart
\* hooks. called: svc.Start was invoked; err: the error the resolution returns.
AutoStart(name, inst, mwBefore, startOk, mwAfter) ==
    IF ~inst.svc THEN [called |-> FALSE, err |-> NoErr]
    ELSE IF mwBefore THEN [called |-> FALSE, err |-> MwErr]
    ELSE IF mwAfter THEN [called |-> TRUE, err |-> MwErr]
    ELSE IF ~startOk THEN [called |-> TRUE, err |-> NewServiceError(name, "auto_start", StartErr)]
    ELSE [called |-> TRUE, err |-> NoErr]

\* A resolveInternal that never marks the registration started.
StartedNever(reg, failed) == reg.started

\* "reg.started = true", reached unless the auto-start returned early with an error.
StartedAfter(reg, failed) == IF failed THEN reg.started ELSE TRUE

\* resolveInternal, singleton, from "Auto-start if ..." to the return, holding the
\* write lock of the registration (released by the deferred Unlock): instance is
\* reg.instance, existing the local existingInstance.
FinishSingleton(t, name, instance, existing, mwBefore, startOk, mwAfter, mwResolve) ==
    LET reg == services[name]
        as == AutoStart(name, existing, mwBefore, startOk, mwAfter)
        failed == ~reg.started /\ as.err # NoErr
        res == IF failed THEN AfterResolve(NilInst, as.err, mwResolve)
               ELSE AfterResolve(instance, NoErr, mwResolve)
    IN  /\ services' = [services EXCEPT ![name].instance = instance,
                                        ![name].started = StartedAfter(reg, failed)]
        /\ hooks' = IF ~reg.started /\ as.called
                    THEN Append(hooks, HookEvent(t, "Start", name, existing, startOk, mwAfter))
                    ELSE hooks
        /\ regmu' = [regmu EXCEPT ![name] = Unlock(@)]
        /\ Return(t, res.val, res.err)

\* resolveInternal's test "reg.instance != nil && reg.started", made on the fast
\* path under the read lock and again under the write lock.
Ready(reg) == reg.instance # NilInst /\ reg.started

\* A resolveInternal that creates an instance whether or not one is cached.
AlwaysCreate(reg) == TRUE

\* resolveInternal's test "reg.instance == nil" before it creates the instance.
NeedsFactory(reg) == reg.instance = NilInst

\* A resolveInternal that takes every registration for a singleton.
AlwaysSingleton(reg) == TRUE

\* resolveInternal's test "if reg.singleton".
IsSingleton(reg) == reg.singleton

\* A resolveInternal that takes no registration for a scoped one.
NeverScoped(reg) == FALSE

\* resolveInternal's test "if reg.scoped".
IsScoped(reg) == reg.scoped

\* c.Resolve up to the lookup of the registration; for a transient name, on to
\* the invocation of the factory.
ResolveBegin(t) ==
    /\ At(t, "Resolve", "begin")
    /\ \E mwBefore \in MwFails, mwResolve \in MwFails :
        LET name == Top(t).name
            reg == services[name]
        IN  IF mwBefore THEN
                /\ Return(t, NilInst, MwErr)
                /\ UNCHANGED <<cmu, factories>>
            ELSE
                /\ CanRLock(cmu)
                /\ cmu' = RUnlock(RLock(cmu, t), t)
                /\ IF ~reg.exists THEN
                       /\ LET res == AfterResolve(NilInst, ErrServiceNotFound(name), mwResolve)
                          IN  Return(t, res.val, res.err)
                       /\ UNCHANGED factories
                   ELSE IF IsSingleton(reg) THEN
                       /\ Goto(t, [Top(t) EXCEPT !.pc = "fast"])
                       /\ UNCHANGED factories
                   ELSE IF IsScoped(reg) THEN
                       /\ LET res == AfterResolve(NilInst, ErrScopedFromContainer(name), mwResolve)
                          IN  Return(t, res.val, res.err)
                       /\ UNCHANGED factories
                   ELSE
                       /\ Goto(t, [Top(t) EXCEPT !.pc = "factory"])
                       /\ factories' = Invoked(Top(t).scope, name)
    /\ UNCHANGED <<services, graph, middleware, cstarted, regmu, scopes, nextInst,
                   hooks, regErr, lastSort, typeRegistry, constructed, provided>>

\* resolveInternal, singleton: the fast path under the read lock.
ResolveFast(t) ==
    /\ At(t, "Resolve", "fast")
    /\ \E mwResolve \in MwFails :
        LET name == Top(t).name
            reg == services[name]
        IN  /\ CanRLock(regmu[name])
            /\ regmu' = [regmu EXCEPT ![name] = RUnlock(RLock(@, t), t)]
            /\ IF Ready(reg) THEN
                   LET res == AfterResolve(reg.instance, NoErr, mwResolve)
                   IN  Return(t, res.val, res.err)
               ELSE
                   Goto(t, [Top(t) EXCEPT !.pc = "lock", !.inst = reg.instance])
    /\ UNCHANGED <<services, graph, middleware, cstarted, cmu, scopes, nextInst,
                   factories, hooks, regErr, lastSort, typeRegistry, constructed, provided>>

\* resolveInternal, singleton: the slow path from reg.mu.Lock() to the invocation
\* of the factory, or to the return when the instance exists already.
ResolveLock(t) ==
    /\ At(t, "Resolve", "lock")
    /\ \E mwBefore \in MwFails, startOk \in BOOLEAN, mwAfter \in MwFails, mwResolve \in MwFails :
        LET name == Top(t).name
            reg == services[name]
        IN  /\ CanLock(regmu[name])
            /\ IF Ready(reg) THEN
                   /\ regmu' = [regmu EXCEPT ![name] = Unlock(Lock(@, t))]
                   /\ LET res == AfterResolve(reg.instance, NoErr, mwResolve)
                      IN  Return(t, res.val, res.err)
                   /\ UNCHANGED <<services, factories, hooks>>
               ELSE IF NeedsFactory(reg) THEN
                   /\ regmu' = [regmu EXCEPT ![name] = Lock(@, t)]
                   /\ factories' = Invoked(Top(t).scope, name)
                   /\ Goto(t, [Top(t) EXCEPT !.pc = "factory"])
                   /\ UNCHANGED <<services, hooks>>
               ELSE
                   /\ FinishSingleton(t, name, reg.instance, Top(t).inst,
                                      mwBefore, startOk, mwAfter, mwResolve)
                   /\ UNCHANGED factories
    /\ UNCHANGED <<graph, middleware, cstarted, cmu, scopes, nextInst, regErr, lastSort, typeRegistry, constructed, provided>>

\* ------------------------------------------------------------------ factories
\* What a factory that returns no error can return: nil, a plain value, or a value
\* that implements di.Service.
InstKinds == {"nil", "plain", "service"}
Created(kind) ==
    IF kind = "nil" THEN NilInst
    ELSE IF kind = "disposable" THEN NewDisposable(nextInst)
    ELSE NewInst(nextInst, kind = "service")

\* The factories in progress on a thread that are waiting for a Resolve they made.
Nesting(t) == Cardinality({k \in 1..Len(stack[t]) : stack[t][k].pc = "factoryRet"})

\* A running factory (user code) calls back into the container: c.Resolve(dep).
FactoryCall(t, dep) ==
    /\ ~Idle(t)
    /\ Top(t).pc = "factory"
    /\ Nesting(t) < MaxDepth
    /\ stack' = WithCall(t, [Top(t) EXCEPT !.pc = "factoryRet"], NewFrame("Resolve", dep, 0))
    /\ ret' = [ret EXCEPT ![t] = NoRet]
    /\ UNCHANGED <<services, graph, middleware, cstarted, cmu, regmu, scopes, calls,
                   nextInst, factories, hooks, regErr, lastSort, typeRegistry, constructed, provided>>

\* A resolveInternal that returns the error of the factory as it is.
RawErr(name, err) == err

\* resolveInternal's "return nil, NewServiceError(name, "resolve", err)".
ResolveErr(name, err) == NewServiceError(name, "resolve", err)

\* resolveInternal from the return of reg.factory(c) on: the factory returns an
\* error or an instance; a singleton is cached and auto-started under the write
\* lock taken before the call, a transient is auto-started and returned. The
\* factory returns an error or a value of one of the kinds.
FactoryReturns(t, kinds) ==
    /\ ~Idle(t)
    /\ Top(t).fn = "Resolve"
    /\ Top(t).pc \in {"factory", "factoryRet"}
    /\ \E ok \in BOOLEAN, kind \in kinds, mwBefore \in MwFails, startOk \in BOOLEAN,
          mwAfter \in MwFails, mwResolve \in MwFails :
        LET name == Top(t).name
            reg == services[name]
            instance == Created(kind)
            failure == AfterResolve(NilInst, ResolveErr(name, FactoryErr), mwResolve)
            as == AutoStart(name, instance, mwBefore, startOk, mwAfter)
            res == IF as.err # NoErr THEN AfterResolve(NilInst, as.err, mwResolve)
                   ELSE AfterResolve(instance, NoErr, mwResolve)
        IN  /\ factories' = Returned(0, name, ok, instance)
            /\ IF IsSingleton(reg) /\ ~ok THEN
                   /\ regmu' = [regmu EXCEPT ![name] = Unlock(@)]
                   /\ Return(t, failure.val, failure.err)
                   /\ UNCHANGED <<services, hooks, nextInst>>
               ELSE IF IsSingleton(reg) THEN
                   /\ FinishSingleton(t, name, instance, instance,
                                      mwBefore, startOk, mwAfter, mwResolve)
                   /\ nextInst' = IF instance = NilInst THEN nextInst ELSE nextInst + 1
               ELSE IF ~ok THEN
                   /\ Return(t, failure.val, failure.err)
                   /\ UNCHANGED <<services, regmu, hooks, nextInst>>
               ELSE
                   /\ hooks' = IF as.called
                               THEN Append(hooks, HookEvent(t, "Start", name, instance, startOk, mwAfter))
                               ELSE hooks
                   /\ nextInst' = IF instance = NilInst THEN nextInst ELSE nextInst + 1
                   /\ Return(t, res.val, res.err)
                   /\ UNCHANGED <<services, regmu>>
    /\ UNCHANGED <<graph, middleware, cstarted, cmu, scopes, regErr, lastSort, typeRegistry, constructed, provided>>

FactoryReturn(t) == FactoryReturns(t, InstKinds)

\* --------------------------------------------------------------------- scopes
\* BeginScope: newScope(c); the scopes are numbered in the order of their creation.
BeginScope(s) ==
    /\ Setup
    /\ ~scopes[s].begun
    /\ \A s0 \in ScopeIds : s0 < s => scopes[s0].begun
    /\ scopes' = [scopes EXCEPT ![s].begun = TRUE]
    /\ UNCHANGED <<services, graph, middleware, cstarted, cmu, regmu, stack, ret, calls,
                   nextInst, factories, hooks, regErr, lastSort, typeRegistry, constructed, provided>>

\* A scope that finds no instance cached, whatever it holds.
NeverCached(s, name) == FALSE

\* scope.Resolve's lookup "instance, ok := s.instances[name]".
Cached(s, name) == scopes[s].instances[name].ok

\* A Resolve that takes no notice of the end of the scope.
ScopeNeverEnded(s) == FALSE

\* scope.Resolve's test "if s.ended".
ScopeEnded(s) == scopes[s].ended

\* A scope that resolves every name by itself.
NeverDelegates(reg) == FALSE

\* scope.Resolve's test "if reg.singleton": the container resolves singletons.
DelegatesToParent(reg) == reg.singleton

\* A Resolve that does not hold the scope's lock while it works.
ScopeUnlocked(sc, s, t) == sc

\* scope.Resolve's "s.mu.Lock(); defer s.mu.Unlock()": the scope's lock is held by
\* the thread from the entry of Resolve to its return.
ScopeLocked(sc, s, t) == [sc EXCEPT ![s].mu = Lock(@, t)]

\* scope.Resolve from s.mu.Lock() to the call of the parent's Resolve (singleton),
\* the cached instance (scoped) or the invocation of the factory; the scope's lock
\* stays held until the call returns (defer).
ScopeResolveBegin(t) ==
    /\ At(t, "ScopeResolve", "begin")
    /\ LET s == Top(t).scope
           name == Top(t).name
           reg == services[name]
           locked == ScopeLocked(scopes, s, t)
       IN  /\ CanLock(scopes[s].mu)
           /\ IF ScopeEnded(s) THEN
                  /\ scopes' = [locked EXCEPT ![s].mu = Unlock(@)]
                  /\ Return(t, NilInst, ErrScopeEnded)
                  /\ UNCHANGED <<cmu, factories>>
              ELSE
                  /\ CanRLock(cmu)
                  /\ cmu' = RUnlock(RLock(cmu, t), t)
                  /\ IF ~reg.exists THEN
                         /\ scopes' = [locked EXCEPT ![s].mu = Unlock(@)]
                         /\ Return(t, NilInst, ErrServiceNotFound(name))
                         /\ UNCHANGED factories
                     ELSE IF DelegatesToParent(reg) THEN
                         /\ scopes' = locked
                         /\ stack' = WithCall(t, [Top(t) EXCEPT !.pc = "parent"],
                                              NewFrame("Resolve", name, 0))
                         /\ UNCHANGED <<ret, calls, factories>>
                     ELSE IF reg.scoped /\ Cached(s, name) THEN
                         /\ scopes' = [locked EXCEPT ![s].mu = Unlock(@)]
                         /\ Return(t, scopes[s].instances[name].inst, NoErr)
                         /\ UNCHANGED factories
                     ELSE
                         /\ scopes' = locked
                         /\ factories' = Invoked(Top(t).scope, name)
                         /\ Goto(t, [Top(t) EXCEPT !.pc = "factory"])
    /\ UNCHANGED <<services, graph, middleware, cstarted, regmu, nextInst, hooks, regErr, lastSort, typeRegistry, constructed, provided>>

\* scope.Resolve, singleton: return s.parent.Resolve(name).
ScopeResolveParent(t) ==
    /\ At(t, "ScopeResolve", "parent")
    /\ scopes' = [scopes EXCEPT ![Top(t).scope].mu = Unlock(@)]
    /\ Return(t, ret[t].val, ret[t].err)
    /\ UNCHANGED <<services, graph, middleware, cstarted, cmu, regmu, nextInst,
                   factories, hooks, regErr, lastSort, typeRegistry, constructed, provided>>

\* A scope does not look at what the instance implements: it starts no service.
ScopeKinds == {"nil", "plain"}

\* A cache that all the scopes share.
CacheInAll(sc, s, name, instance) ==
    [s0 \in ScopeIds |-> [sc[s0] EXCEPT !.instances[name] = [ok |-> TRUE, inst |-> instance]]]

\* scope.Resolve's "s.instances[name] = instance": the scope caches the instance
\* in its own map.
CacheIn(sc, s, name, instance) ==
    [sc EXCEPT ![s].instances[name] = [ok |-> TRUE, inst |-> instance]]

\* scope.Resolve from the return of reg.factory(s.parent) on, for a factory that
\* returns an error or a value of one of the kinds: a scoped instance is cached in
\* the scope, a transient one is returned.
ScopeFactoryReturns(t, kinds) ==
    /\ ~Idle(t)
    /\ Top(t).fn = "ScopeResolve"
    /\ Top(t).pc \in {"factory", "factoryRet"}
    /\ \E ok \in BOOLEAN, kind \in kinds :
        LET s == Top(t).scope
            name == Top(t).name
            reg == services[name]
            instance == Created(kind)
            unlocked == [scopes EXCEPT ![s].mu = Unlock(@)]
        IN  /\ factories' = Returned(s, name, ok, instance)
            /\ IF ~ok THEN
                   /\ scopes' = unlocked
                   /\ Return(t, NilInst, NewServiceError(name, "resolve", FactoryErr))
                   /\ UNCHANGED nextInst
               ELSE
                   /\ scopes' = IF reg.scoped
                                THEN CacheIn(unlocked, s, name, instance)
                                ELSE unlocked
                   /\ nextInst' = IF instance = NilInst THEN nextInst ELSE nextInst + 1
                   /\ Return(t, instance, NoErr)
    /\ UNCHANGED <<services, graph, middleware, cstarted, cmu, regmu, hooks, regErr, lastSort, typeRegistry, constructed, provided>>

ScopeFactoryReturn(t) == ScopeFactoryReturns(t, ScopeKinds)

\* --------------------------------------------------------- scope.End, scope.Set
\* The orders in which "for name, instance := range s.instances" can go through
\* the map: every sequence that holds each cached name once.
RangeOrders(instances) ==
    LET keys == {n \in Names : instances[n].ok}
    IN  {o \in [1..Cardinality(keys) -> keys] : \A n \in keys : \E k \in DOMAIN o : o[k] = n}

\* An End that ends the scope anew each time it is called.
NeverEnded(s) == FALSE

\* scope.End's test "if s.ended".
AlreadyEnded(s) == scopes[s].ended

\* An End that stops at the first disposal that fails.
DisposeStops(f, err) == IF err # NoErr THEN Len(f.order) + 1 ELSE f.i + 1

\* End's loop goes on to the next instance whatever Dispose returned.
DisposeNext(f, err) == f.i + 1

\* scope.End from s.mu.Lock() to the loop over the instances; the scope's lock
\* stays held until End returns (defer).
ScopeEndBegin(t) ==
    /\ At(t, "ScopeEnd", "begin")
    /\ LET s == Top(t).scope
       IN  /\ CanLock(scopes[s].mu)
           /\ IF AlreadyEnded(s) THEN
                  /\ scopes' = [scopes EXCEPT ![s].mu = Unlock(Lock(@, t))]
                  /\ Return(t, NilInst, ErrScopeEnded)
              ELSE
                  /\ scopes' = [scopes EXCEPT ![s].mu = Lock(@, t)]
                  /\ \E order \in RangeOrders(scopes[s].instances) :
                        Goto(t, [Top(t) EXCEPT !.pc = "dispose", !.order = order, !.i = 1])
    /\ UNCHANGED <<services, graph, middleware, cstarted, cmu, regmu, nextInst,
                   factories, hooks, regErr, lastSort, typeRegistry, constructed, provided>>

\* scope.End, one iteration of the loop (Dispose on an instance that implements
\* di.Disposable, its error collected); after the last iteration the maps are
\* dropped, the scope is ended, and End returns the collected errors as one.
ScopeEndDispose(t) ==
    /\ At(t, "ScopeEnd", "dispose")
    /\ \E disposeOk \in BOOLEAN :
        LET f == Top(t)
            s == f.scope
            name == f.order[f.i]
            instance == scopes[s].instances[name].inst
            err == IF instance.disp /\ ~disposeOk THEN ErrScopeCleanup ELSE NoErr
        IN  IF f.i > Len(f.order) THEN
                /\ scopes' = [scopes EXCEPT ![s].instances = NoInstances,
                                            ![s].context = {},
                                            ![s].ended = TRUE,
                                            ![s].mu = Unlock(@)]
                /\ Return(t, NilInst, f.err)
                /\ UNCHANGED hooks
            ELSE
                /\ hooks' = IF instance.disp
                            THEN Append(hooks, HookEvent(t, "Dispose", name, instance, disposeOk, FALSE))
                            ELSE hooks
                /\ Goto(t, [f EXCEPT !.i = DisposeNext(f, err),
                                     !.err = IF err # NoErr THEN err ELSE @])
                /\ UNCHANGED scopes
    /\ UNCHANGED <<services, graph, middleware, cstarted, cmu, regmu, nextInst,
                   factories, regErr, lastSort, typeRegistry, constructed, provided>>

\* The keys the application stores in the context of a scope.
Keys == {"k"}

\* scope.Set(key, value): silently ignored once the scope is ended.
ScopeSet(s, key) ==
    /\ scopes[s].begun
    /\ CanLock(scopes[s].mu)
    /\ scopes' = IF scopes[s].ended THEN scopes ELSE [scopes EXCEPT ![s].context = @ \cup {key}]
    /\ UNCHANGED <<services, graph, middleware, cstarted, cmu, regmu, stack, ret, calls,
                   nextInst, factories, hooks, regErr, lastSort, typeRegistry, constructed, provided>>

\* ------------------------------------------------------------- Start, Stop
\* startService(name) up to its call of c.Resolve: skip TRUE when there is nothing
\* to do (the name is not registered, or the service is started already).
StartServiceSkips(name) == ~services[name].exists \/ services[name].started

\* stopService's test "if !started || instance == nil".
StopSkips(reg) == ~reg.started \/ reg.instance = NilInst

\* stopService(name) up to the return of svc.Stop: the instance and started flag
\* are read under the read lock, and Stop is invoked on a started di.Service.
\* called: svc.Stop was invoked; err: its error; mark: started is to be cleared.
StopServiceRead(name, stopOk) ==
    LET reg == services[name]
    IN  IF StopSkips(reg) THEN
            [called |-> FALSE, err |-> NoErr, mark |-> FALSE]
        ELSE IF ~reg.instance.svc THEN
            [called |-> FALSE, err |-> NoErr, mark |-> FALSE]
        ELSE IF ~stopOk THEN
            [called |-> TRUE, err |-> StopErr, mark |-> FALSE]
        ELSE
            [called |-> TRUE, err |-> NoErr, mark |-> TRUE]

\* A Stop loop that runs from the start of the topological order to its end.
StopForward(order, k) == order[k]

\* The name that the k-th iteration of Stop's loop stops: the loop runs from the
\* end of the topological order to its start.
StopIndex(order, k) == order[Len(order) + 1 - k]

\* The name that the k-th iteration of stopServices' loop stops.
RollbackIndex(names, k) == names[Len(names) + 1 - k]

\* The name that the k-th iteration of Start's loop starts.
StartIndex(order, k) == order[k]

\* A Start that never finds the container started.
NeverStarted == FALSE

\* Start's test "if c.started".
AlreadyStarted == cstarted

\* A Stop that goes on after a failed stopService.
StopGoesOn(err) == FALSE

\* Stop's test of the error stopService returned.
StopFailed(err) == err # NoErr

\* A Stop that goes through the services whether or not the container is started.
StopAnyway == FALSE

\* Stop's test "if !c.started".
StopNotStarted == ~cstarted

\* Start from c.mu.Lock() to the unlock before the loop.
StartBegin(t) ==
    /\ At(t, "Start", "begin")
    /\ CanLock(cmu)
    /\ cmu' = Unlock(Lock(cmu, t))
    /\ LET sorted == TopologicalSort(graph)
       IN  IF AlreadyStarted THEN Return(t, NilInst, NoErr)
           ELSE IF sorted.err # NoErr THEN Return(t, NilInst, sorted.err)
           ELSE Goto(t, [Top(t) EXCEPT !.pc = "loop", !.order = sorted.order, !.i = 1])
    /\ UNCHANGED <<services, graph, middleware, cstarted, regmu, scopes, nextInst,
                   factories, hooks, regErr, lastSort, typeRegistry, constructed, provided>>

\* Start, one iteration of the loop up to startService's call of c.Resolve; after
\* the last iteration, c.started is set and Start returns.
StartLoop(t) ==
    /\ At(t, "Start", "loop")
    /\ LET f == Top(t)
       IN  IF f.i > Len(f.order) THEN
               /\ CanLock(cmu)
               /\ cmu' = Unlock(Lock(cmu, t))
               /\ cstarted' = TRUE
               /\ Return(t, NilInst, NoErr)
               /\ UNCHANGED regmu
           ELSE
               /\ CanRLock(cmu)
               /\ cmu' = RUnlock(RLock(cmu, t), t)
               /\ CanRLock(regmu[StartIndex(f.order, f.i)])
               /\ regmu' = [regmu EXCEPT ![StartIndex(f.order, f.i)] = RUnlock(RLock(@, t), t)]
               /\ cstarted' = cstarted
               /\ IF StartServiceSkips(StartIndex(f.order, f.i)) THEN
                      Goto(t, [f EXCEPT !.i = @ + 1])
                  ELSE
                      /\ stack' = WithCall(t, [f EXCEPT !.pc = "resolved"],
                                           NewFrame("Resolve", StartIndex(f.order, f.i), 0))
                      /\ UNCHANGED <<ret, calls>>
    /\ UNCHANGED <<services, graph, middleware, scopes, nextInst, factories, hooks, regErr, lastSort, typeRegistry, constructed, provided>>

\* Start, after startService returned: on to the next service, or to the rollback
\* with the error Start will return.
StartResolved(t) ==
    /\ At(t, "Start", "resolved")
    /\ LET f == Top(t)
       IN  IF ret[t].err # NoErr THEN
               Goto(t, [f EXCEPT !.pc = "rollback", !.i = 1,
                                 !.err = NewServiceError(StartIndex(f.order, f.i), "start", ret[t].err)])
           ELSE
               Goto(t, [f EXCEPT !.pc = "loop", !.i = @ + 1])
    /\ UNCHANGED <<services, graph, middleware, cstarted, cmu, regmu, scopes, nextInst,
                   factories, hooks, regErr, lastSort, typeRegistry, constructed, provided>>

\* stopServices(order), the k-th iteration (k = f.i) up to the return of svc.Stop
\* (errors are dropped); after the last iteration Start returns its error.
StartRollback(t) ==
    /\ At(t, "Start", "rollback")
    /\ \E stopOk \in BOOLEAN :
        LET f == Top(t)
            name == RollbackIndex(f.order, f.i)
            out == StopServiceRead(name, stopOk)
        IN  IF f.i > Len(f.order) THEN
                /\ Return(t, NilInst, f.err)
                /\ UNCHANGED <<regmu, hooks>>
            ELSE
                /\ CanRLock(regmu[name])
                /\ regmu' = [regmu EXCEPT ![name] = RUnlock(RLock(@, t), t)]
                /\ hooks' = IF out.called
                            THEN Append(hooks, HookEvent(t, "Stop", name, services[name].instance, stopOk, FALSE))
                            ELSE hooks
                /\ IF out.mark THEN Goto(t, [f EXCEPT !.pc = "rollbackMark"])
                   ELSE Goto(t, [f EXCEPT !.i = @ + 1])
    /\ UNCHANGED <<services, graph, middleware, cstarted, cmu, scopes, nextInst,
                   factories, regErr, lastSort, typeRegistry, constructed, provided>>

\* stopService after a successful svc.Stop: started is cleared under the write lock.
StartRollbackMark(t) ==
    /\ At(t, "Start", "rollbackMark")
    /\ LET f == Top(t)
           name == RollbackIndex(f.order, f.i)
       IN  /\ CanLock(regmu[name])
           /\ regmu' = [regmu EXCEPT ![name] = Unlock(Lock(@, t))]
           /\ services' = [services EXCEPT ![name].started = FALSE]
           /\ Goto(t, [f EXCEPT !.pc = "rollback", !.i = @ + 1])
    /\ UNCHANGED <<graph, middleware, cstarted, cmu, scopes, nextInst, factories,
                   hooks, regErr, lastSort, typeRegistry, constructed, provided>>

\* Stop from c.mu.Lock() to the unlock before the loop.
StopBegin(t) ==
    /\ At(t, "Stop", "begin")
    /\ CanLock(cmu)
    /\ cmu' = Unlock(Lock(cmu, t))
    /\ LET sorted == TopologicalSort(graph)
       IN  IF StopNotStarted THEN Return(t, NilInst, NoErr)
           ELSE IF sorted.err # NoErr THEN Return(t, NilInst, sorted.err)
           ELSE Goto(t, [Top(t) EXCEPT !.pc = "loop", !.order = sorted.order, !.i = 1])
    /\ UNCHANGED <<services, graph, middleware, cstarted, regmu, scopes, nextInst,
                   factories, hooks, regErr, lastSort, typeRegistry, constructed, provided>>

\* Stop, the k-th iteration of the loop (k = f.i) up to the return of svc.Stop: an
\* error ends Stop at once; after the last iteration, c.started is cleared.
StopLoop(t) ==
    /\ At(t, "Stop", "loop")
    /\ \E stopOk \in BOOLEAN :
        LET f == Top(t)
            name == StopIndex(f.order, f.i)
            out == StopServiceRead(name, stopOk)
        IN  IF f.i > Len(f.order) THEN
                /\ CanLock(cmu)
                /\ cmu' = Unlock(Lock(cmu, t))
                /\ cstarted' = FALSE
                /\ Return(t, NilInst, NoErr)
                /\ UNCHANGED <<regmu, hooks>>
            ELSE
                /\ CanRLock(regmu[name])
                /\ regmu' = [regmu EXCEPT ![name] = RUnlock(RLock(@, t), t)]
                /\ hooks' = IF out.called
                            THEN Append(hooks, HookEvent(t, "Stop", name, services[name].instance, stopOk, FALSE))
                            ELSE hooks
                /\ UNCHANGED <<cmu, cstarted>>
                /\ IF StopFailed(out.err) THEN Return(t, NilInst, NewServiceError(name, "stop", out.err))
                   ELSE IF out.mark THEN Goto(t, [f EXCEPT !.pc = "mark"])
                   ELSE Goto(t, [f EXCEPT !.i = @ + 1])
    /\ UNCHANGED <<services, graph, middleware, scopes, nextInst, factories, regErr, lastSort, typeRegistry, constructed, provided>>

\* stopService after a successful svc.Stop: started is cleared under the write lock.
StopMark(t) ==
    /\ At(t, "Stop", "mark")
    /\ LET f == Top(t)
           name == StopIndex(f.order, f.i)
       IN  /\ CanLock(regmu[name])
           /\ regmu' = [regmu EXCEPT ![name] = Unlock(Lock(@, t))]
           /\ services' = [services EXCEPT ![name].started = FALSE]
           /\ Goto(t, [f EXCEPT !.pc = "loop", !.i = @ + 1])
    /\ UNCHANGED <<graph, middleware, cstarted, cmu, scopes, nextInst, factories,
                   hooks, regErr, lastSort, typeRegistry, constructed, provided>>

\* --------------------------------------------------------------- ResolveReady
\* ResolveReady up to its first read of reg.started.
ResolveReadyBegin(t) ==
    /\ At(t, "ResolveReady", "begin")
    /\ LET f == Top(t)
       IN  /\ CanRLock(cmu)
           /\ cmu' = RUnlock(RLock(cmu, t), t)
           /\ IF ~services[f.name].exists THEN
                  /\ Return(t, NilInst, ErrServiceNotFound(f.name))
                  /\ UNCHANGED regmu
              ELSE
                  /\ CanRLock(regmu[f.name])
                  /\ regmu' = [regmu EXCEPT ![f.name] = RUnlock(RLock(@, t), t)]
                  /\ IF services[f.name].started THEN
                         /\ stack' = WithCall(t, [f EXCEPT !.pc = "final"],
                                              NewFrame("Resolve", f.name, 0))
                         /\ UNCHANGED <<ret, calls>>
                     ELSE
                         Goto(t, [f EXCEPT !.pc = "startService"])
    /\ UNCHANGED <<services, graph, middleware, cstarted, scopes, nextInst, factories,
                   hooks, regErr, lastSort, typeRegistry, constructed, provided>>

\* ResolveReady in startService, up to its call of c.Resolve; when the service
\* has been started meanwhile, on to ResolveReady's own call of c.Resolve.
ResolveReadyStartService(t) ==
    /\ At(t, "ResolveReady", "startService")
    /\ LET f == Top(t)
       IN  /\ CanRLock(cmu)
           /\ cmu' = RUnlock(RLock(cmu, t), t)
           /\ CanRLock(regmu[f.name])
           /\ regmu' = [regmu EXCEPT ![f.name] = RUnlock(RLock(@, t), t)]
           /\ stack' = WithCall(t, [f EXCEPT !.pc = IF StartServiceSkips(f.name)
                                                    THEN "final" ELSE "started"],
                                NewFrame("Resolve", f.name, 0))
    /\ UNCHANGED <<services, graph, middleware, cstarted, scopes, ret, calls, nextInst,
                   factories, hooks, regErr, lastSort, typeRegistry, constructed, provided>>

\* ResolveReady after startService returned: its error, wrapped, or c.Resolve(name).
ResolveReadyStarted(t) ==
    /\ At(t, "ResolveReady", "started")
    /\ LET f == Top(t)
       IN  IF ret[t].err # NoErr THEN
               Return(t, NilInst, NewServiceError(f.name, "start", ret[t].err))
           ELSE
               /\ stack' = WithCall(t, [f EXCEPT !.pc = "final"], NewFrame("Resolve", f.name, 0))
               /\ ret' = [ret EXCEPT ![t] = NoRet]
               /\ calls' = calls
    /\ UNCHANGED <<services, graph, middleware, cstarted, cmu, regmu, scopes, nextInst,
                   factories, hooks, regErr, lastSort, typeRegistry, constructed, provided>>

\* ResolveReady: return c.Resolve(name).
ResolveReadyFinal(t) ==
    /\ At(t, "ResolveReady", "final")
    /\ Return(t, ret[t].val, ret[t].err)
    /\ UNCHANGED <<services, graph, middleware, cstarted, cmu, regmu, scopes, nextInst,
                   factories, hooks, regErr, lastSort, typeRegistry, constructed, provided>>

\* ------------------------------------------------------------ top-level calls
\* The application calls an operation of the container or of a scope on a thread.
Call(t, fn, name, scope) ==
    /\ Idle(t)
    /\ stack' = [stack EXCEPT ![t] = <<NewFrame(fn, name, scope)>>]
    /\ UNCHANGED <<services, graph, middleware, cstarted, cmu, regmu, scopes, ret, calls,
                   nextInst, factories, hooks, regErr, lastSort, typeRegistry, constructed, provided>>

CallResolve(t, name) == Call(t, "Resolve", name, 0)
CallResolveReady(t, name) == Call(t, "ResolveReady", name, 0)
CallStart(t) == Call(t, "Start", "", 0)
CallStop(t) == Call(t, "Stop", "", 0)
CallScopeResolve(t, s, name) == scopes[s].begun /\ Call(t, "ScopeResolve", name, s)
CallScopeEnd(t, s) == scopes[s].begun /\ Call(t, "ScopeEnd", "", s)

\* ------------------------------------------------- singleton resolution
\* The application registers singletons, then resolves them from every thread;
\* a running factory may resolve any name.
ResolveStep(t) ==
    \/ ResolveBegin(t)
    \/ ResolveFast(t)
    \/ ResolveLock(t)
    \/ \E dep \in Names : FactoryCall(t, dep)
    \/ FactoryReturn(t)

\* The steps of a resolution whose factories do not call back into the container.
LeafResolveStep(t) ==
    \/ ResolveBegin(t)
    \/ ResolveFast(t)
    \/ ResolveLock(t)
    \/ FactoryReturn(t)

NextResolve ==
    \/ \E n \in Names : ~services[n].exists /\ Register(n, TRUE, "singleton", <<>>)
    \/ Use
    \/ \E t \in Threads, n \in Names : Started < MaxCalls /\ CallResolve(t, n)
    \/ \E t \in Threads : ResolveStep(t)

SpecResolve == Init /\ [][NextResolve]_vars

\* Every thread that can take a step eventually takes one: user code returns, and
\* the scheduler starves no thread.
FairResolve == SpecResolve /\ \A t \in Threads : WF_vars(ResolveStep(t))

\* The finished top-level calls fn(name), as <<thread, index>> pairs.
Finished(fn, name) ==
    {c \in Threads \X (1..MaxLifecycleCalls) :
        /\ c[2] <= Len(calls[c[1]])
        /\ calls[c[1]][c[2]].fn = fn
        /\ calls[c[1]][c[2]].name = name}
Result(c) == calls[c[1]][c[2]]

\* C1 as stated: when two or more threads have resolved the same singleton name
\* and its factory succeeded (it returned an instance, never an error or nil), the
\* factory has run exactly once and every one of the calls returned the same
\* instance. Stated for a container without middleware.
C1_FactoryOnceSameInstance ==
    \A n \in Names :
        (/\ services[n].singleton
         /\ middleware = 0
         /\ factories[<<0, n>>].errs = 0
         /\ factories[<<0, n>>].nils = 0
         /\ Cardinality({c[1] : c \in Finished("Resolve", n)}) >= 2)
        => /\ factories[<<0, n>>].runs = 1
           /\ \A c \in Finished("Resolve", n) :
                /\ Result(c).err = NoErr
                /\ Result(c).val # NilInst
                /\ Result(c).val = services[n].instance

\* C1, amended: for a singleton name, at most one invocation of the factory ever
\* returns a non-nil instance (the factory is invoked again only after every
\* earlier invocation returned an error or nil), and every Resolve call that
\* returns a value returns that one instance, without error; a call returns an
\* error only from the factory, the auto-start or a middleware hook.
C1_OneInstancePerSingleton ==
    \A n \in Names :
        services[n].singleton =>
            /\ factories[<<0, n>>].runs <= factories[<<0, n>>].errs + factories[<<0, n>>].nils + 1
            /\ \A c \in Finished("Resolve", n) :
                /\ Result(c).val # NilInst =>
                      /\ Result(c).err = NoErr
                      /\ Result(c).val = services[n].instance
                      /\ factories[<<0, n>>].runs >= 1
                /\ Result(c).err # NoErr =>
                      \/ Result(c).err = MwErr
                      \/ /\ Result(c).err.kind = "ServiceError"
                         /\ Result(c).err.name = n
                         /\ Result(c).err.op \in {"resolve", "auto_start"}

\* Two threads have resolved the same singleton and hold the same instance, made
\* by the one run of the factory.
C1_Witness ==
    \E n \in Names :
        /\ services[n].singleton
        /\ factories[<<0, n>>].runs = 1
        /\ \E c1, c2 \in Finished("Resolve", n) :
            /\ c1[1] # c2[1]
            /\ Result(c1).val # NilInst
            /\ Result(c1).val = Result(c2).val

\* C2 as stated: every call in progress eventually returns.
C2_ResolveReturns == \A t \in Threads : (~Idle(t)) ~> Idle(t)

\* The thread holds a lock of the container, of a registration or of a scope.
HoldsLock(t) ==
    \/ cmu.w = t \/ t \in cmu.r
    \/ \E n \in Names : regmu[n].w = t \/ t \in regmu[n].r
    \/ \E s \in ScopeIds : scopes[s].mu.w = t \/ t \in scopes[s].mu.r

\* A factory invoked by the thread is running (or waiting for a Resolve it made).
InFactory(t) == \E k \in 1..Len(stack[t]) : stack[t][k].pc \in {"factory", "factoryRet"}

\* C3 as stated: a thread that has a factory running holds no lock.
C3_NoLockAtFactory == \A t \in Threads : InFactory(t) => ~HoldsLock(t)

\* ---------------------------------------------------------- scope resolution
\* The application registers services of any lifecycle, creates scopes, then
\* resolves from the scopes on every thread.
ScopeStep(t) ==
    \/ ScopeResolveBegin(t)
    \/ ScopeResolveParent(t)
    \/ ScopeFactoryReturn(t)

NextScope ==
    \/ \E n \in Names, lifecycle \in Lifecycles :
          ~services[n].exists /\ Register(n, TRUE, lifecycle, <<>>)
    \/ \E s \in ScopeIds : BeginScope(s)
    \/ \E t \in Threads, s \in ScopeIds, n \in Names :
          Started < MaxCalls /\ CallScopeResolve(t, s, n)
    \/ \E t \in Threads : ScopeStep(t)
    \/ \E t \in Threads : ResolveStep(t)

SpecScope == Init /\ [][NextScope]_vars

\* The finished calls Resolve(name) on scope s, as <<thread, index>> pairs.
FinishedInScope(s, name) ==
    {c \in Finished("ScopeResolve", name) : Result(c).scope = s}

\* C10: within one scope, when the factory of a scoped name never returned an
\* error, the factory has run at most once in that scope, however many calls were
\* made and from whichever threads, and every call on the scope (not ended)
\* returned, without error, the one instance the scope caches.
C10_ScopedOncePerScope ==
    \A s \in ScopeIds, n \in Names :
        (services[n].scoped /\ factories[<<s, n>>].errs = 0) =>
            /\ factories[<<s, n>>].runs <= 1
            /\ \A c \in FinishedInScope(s, n) :
                Result(c).err # ErrScopeEnded =>
                    /\ Result(c).err = NoErr
                    /\ scopes[s].instances[n].ok
                    /\ Result(c).val = scopes[s].instances[n].inst
                    /\ factories[<<s, n>>].runs = 1

\* Two threads have resolved the same scoped name in the same scope and hold the
\* same instance, made by the one run of the factory in that scope.
C10_Witness ==
    \E s \in ScopeIds, n \in Names :
        /\ services[n].scoped
        /\ factories[<<s, n>>].runs = 1
        /\ \E c1, c2 \in FinishedInScope(s, n) :
            /\ c1[1] # c2[1]
            /\ Result(c1).val # NilInst
            /\ Result(c1).val = Result(c2).val

\* C11: two different scopes never return the same instance for a scoped name
\* (the factory makes a new value at each invocation): a scope that returned an
\* instance has invoked the factory itself and holds that instance in its own cache.
C11_ScopesShareNoInstance ==
    \A n \in Names :
        services[n].scoped =>
            \A s1, s2 \in ScopeIds :
                \A c1 \in FinishedInScope(s1, n), c2 \in FinishedInScope(s2, n) :
                    (Result(c1).err = NoErr /\ Result(c1).val # NilInst) =>
                        /\ factories[<<s1, n>>].runs >= 1
                        /\ scopes[s1].instances[n] = [ok |-> TRUE, inst |-> Result(c1).val]
                        /\ (s1 # s2 /\ Result(c2).err = NoErr) => Result(c1).val # Result(c2).val

\* Two scopes have each resolved the same scoped name: the factory ran once in
\* each, and each scope returned its own instance.
C11_Witness ==
    \E n \in Names, s1, s2 \in ScopeIds :
        /\ services[n].scoped
        /\ s1 # s2
        /\ factories[<<s1, n>>].runs = 1 /\ factories[<<s2, n>>].runs = 1
        /\ \E c1 \in FinishedInScope(s1, n), c2 \in FinishedInScope(s2, n) :
            /\ Result(c1).val # NilInst /\ Result(c2).val # NilInst
            /\ Result(c1).val # Result(c2).val

\* ------------------------------------------------------------ container Start
\* The dependency lists a registration of n declares: none, or one other name.
DepLists(n) == {<<>>} \cup {<<Eager(m)>> : m \in Names \ {n}}

StartStep(t) ==
    \/ StartBegin(t)
    \/ StartLoop(t)
    \/ StartResolved(t)
    \/ StartRollback(t)
    \/ StartRollbackMark(t)

ResolveReadyStep(t) ==
    \/ ResolveReadyBegin(t)
    \/ ResolveReadyStartService(t)
    \/ ResolveReadyStarted(t)
    \/ ResolveReadyFinal(t)

\* The application registers singletons and transients with their dependencies,
\* then its main thread (thread 1) starts the container while the other threads
\* resolve services; the factories are leaves, they resolve nothing themselves.
NextStart ==
    \/ \E n \in Names, lifecycle \in {"singleton", "transient"} :
          \E deps \in DepLists(n) : ~services[n].exists /\ Register(n, TRUE, lifecycle, deps)
    \/ Started < MaxCalls /\ CallStart(1)
    \/ \E t \in Threads \ {1}, n \in Names : Started < MaxCalls /\ CallResolve(t, n)
    \/ \E t \in Threads \ {1}, n \in Names : Started < MaxCalls /\ CallResolveReady(t, n)
    \/ \E t \in Threads : StartStep(t)
    \/ \E t \in Threads : ResolveReadyStep(t)
    \/ \E t \in Threads : LeafResolveStep(t)

SpecStart == Init /\ [][NextStart]_vars

\* ------------------------------------------------------------- container Stop
StopStep(t) ==
    \/ StopBegin(t)
    \/ StopLoop(t)
    \/ StopMark(t)

\* The application registers singletons with their dependencies, then its main
\* thread starts and stops the container while the other threads resolve services.
NextStop ==
    \/ \E n \in Names : \E deps \in DepLists(n) :
          ~services[n].exists /\ Register(n, TRUE, "singleton", deps)
    \/ Started < MaxLifecycleCalls /\ CallStart(1)
    \/ Started < MaxLifecycleCalls /\ CallStop(1)
    \/ \E t \in Threads \ {1}, n \in Names : Started < MaxLifecycleCalls /\ CallResolve(t, n)
    \/ \E t \in Threads : StartStep(t)
    \/ \E t \in Threads : StopStep(t)
    \/ \E t \in Threads : LeafResolveStep(t)

SpecStop == Init /\ [][NextStop]_vars

\* ------------------------------------------------- properties of Start and Stop
HookIdx == 1..Len(hooks)

\* The hook invocation hooks[i] was made by the k-th call of thread t.
InCall(i, t, k) == hooks[i].t = t /\ hooks[i].call = k

\* hooks[i] is an invocation of a Start hook that succeeded and was not overridden
\* by an afterStart middleware.
StartedAt(i) == hooks[i].hook = "Start" /\ hooks[i].ok /\ hooks[i].after

\* The finished calls of fn, as <<thread, index>> pairs.
FinishedCalls(fn) == Finished(fn, "")

\* The position of a name in a sequence that holds it.
Pos(seq, x) == CHOOSE k \in 1..Len(seq) : seq[k] = x

\* The registered names that name declares as dependencies.
RegisteredDeps(name) ==
    {d \in Names : services[d].exists /\ \E k \in 1..Len(services[name].dependencies) :
                                            services[name].dependencies[k] = d}

NoStopCalled ==
    /\ FinishedCalls("Stop") = {}
    /\ \A t \in Threads : Idle(t) \/ stack[t][1].fn # "Stop"

\* C4 as stated: when a Start call has returned the error of a service that failed
\* to start, every service whose Start hook succeeded in that call has had its
\* Stop hook invoked later in the same call, the Stop hooks come in the reverse of
\* the order of the Start hooks, and the container is not started as long as no
\* Start call has succeeded.
C4_RollbackStopsStarted ==
    \A c \in FinishedCalls("Start") :
        (Result(c).err.kind = "ServiceError" /\ Result(c).err.op = "start") =>
            /\ \A i \in HookIdx :
                (StartedAt(i) /\ InCall(i, c[1], c[2])) =>
                    \E j \in HookIdx :
                        /\ j > i
                        /\ InCall(j, c[1], c[2])
                        /\ hooks[j].hook = "Stop"
                        /\ hooks[j].inst = hooks[i].inst
            /\ \A i1, i2, j1, j2 \in HookIdx :
                (/\ i1 < i2
                 /\ StartedAt(i1) /\ InCall(i1, c[1], c[2])
                 /\ StartedAt(i2) /\ InCall(i2, c[1], c[2])
                 /\ hooks[j1].hook = "Stop" /\ InCall(j1, c[1], c[2]) /\ hooks[j1].inst = hooks[i1].inst
                 /\ hooks[j2].hook = "Stop" /\ InCall(j2, c[1], c[2]) /\ hooks[j2].inst = hooks[i2].inst)
                => j2 < j1
            /\ (\A d \in FinishedCalls("Start") : Result(d).err # NoErr) => ~cstarted

\* The last successful invocation of the Start hook of name before hooks[i]; 0 if none.
LastStart(name, i) ==
    LET S == {j \in 1..(i - 1) : StartedAt(j) /\ hooks[j].name = name}
    IN  IF S = {} THEN 0 ELSE CHOOSE j \in S : \A j2 \in S : j2 <= j

\* C5 as stated: the Stop hooks that a successful Stop call invoked come in exactly
\* the reverse of the order in which the Start hooks of those services were invoked.
C5_StopReversesStartOrder ==
    \A c \in FinishedCalls("Stop") :
        Result(c).err = NoErr =>
            \A i, j \in HookIdx :
                (/\ i < j
                 /\ hooks[i].hook = "Stop" /\ InCall(i, c[1], c[2])
                 /\ hooks[j].hook = "Stop" /\ InCall(j, c[1], c[2]))
                => LastStart(hooks[j].name, i) < LastStart(hooks[i].name, i)

\* C5, amended: the Stop hooks that one Stop call invokes come in reverse
\* topological order of the dependency graph, each service at most once, and the
\* Start hooks that one Start call invokes come in topological order: Stop goes
\* through the services in the exact reverse of the order in which Start goes
\* through them, wherever in time a Resolve started a service.
C5_StopReversesTopologicalOrder ==
    LET order == TopologicalSort(graph).order
    IN  \A i, j \in HookIdx :
            (i < j /\ hooks[i].t = hooks[j].t /\ hooks[i].call = hooks[j].call) =>
                /\ (hooks[i].top = "Stop" /\ hooks[i].hook = "Stop" /\ hooks[j].hook = "Stop")
                      => Pos(order, hooks[j].name) < Pos(order, hooks[i].name)
                /\ (hooks[i].top = "Start" /\ hooks[i].hook = "Start" /\ hooks[j].hook = "Start")
                      => Pos(order, hooks[i].name) < Pos(order, hooks[j].name)

\* A Stop call has stopped two services, which a Start call had started.
C5_Witness ==
    \E c \in FinishedCalls("Stop"), i, j, i0, j0 \in HookIdx :
        /\ Result(c).err = NoErr
        /\ i < j
        /\ hooks[i].hook = "Stop" /\ InCall(i, c[1], c[2])
        /\ hooks[j].hook = "Stop" /\ InCall(j, c[1], c[2])
        /\ i0 < j0 /\ j0 < i
        /\ StartedAt(i0) /\ hooks[i0].top = "Start" /\ hooks[i0].name = hooks[j].name
        /\ StartedAt(j0) /\ hooks[j0].top = "Start" /\ hooks[j0].name = hooks[i].name

\* C6 as stated: when a Start call invokes the Start hook of a service, the Start
\* hook of every registered declared dependency that has one (a singleton whose
\* instance is a di.Service) has succeeded before.
C6_DepsStartedFirst ==
    \A i \in HookIdx :
        (hooks[i].hook = "Start" /\ hooks[i].top = "Start") =>
            \A d \in RegisteredDeps(hooks[i].name) :
                (services[d].singleton /\ services[d].instance.svc) =>
                    \E j \in 1..(i - 1) : StartedAt(j) /\ hooks[j].name = d

\* A Start call has returned success.
StartSucceeded == \E c \in FinishedCalls("Start") : Result(c).err = NoErr

\* C7: once a Start call has returned success (and no Stop was called), the step
\* with which a thread enters a further Start call ends that call: it returns
\* success, no factory and no Start or Stop hook is invoked, no registration changes.
C7_SecondStartIsNoOp ==
    [][\A t \in Threads :
          (/\ StartSucceeded
           /\ NoStopCalled
           /\ Len(stack[t]) = 1
           /\ At(t, "Start", "begin")
           /\ stack'[t] # stack[t])
          => /\ stack'[t] = <<>>
             /\ calls'[t] = Append(calls[t], [fn |-> "Start", name |-> "", scope |-> 0,
                                              val |-> NilInst, err |-> NoErr])
             /\ factories' = factories
             /\ hooks' = hooks
             /\ services' = services
             /\ cstarted']_vars

\* A thread has made two Start calls that both returned success, on a container
\* that holds a started service and a transient registration.
C7_Witness ==
    /\ \E c1, c2 \in FinishedCalls("Start") :
        /\ c1[1] = c2[1] /\ c1[2] < c2[2]
        /\ Result(c1).err = NoErr /\ Result(c2).err = NoErr
    /\ \E i \in HookIdx : StartedAt(i)
    /\ \E n \in Names : services[n].exists /\ ~services[n].singleton

EndKinds == {"nil", "plain", "disposable"}

\* The scopes the application creates and ends.
EndScopes == {s \in ScopeIds : \A s0 \in ScopeIds : s <= s0}

ScopeEndStep(t) ==
    \/ ScopeEndBegin(t)
    \/ ScopeEndDispose(t)

\* The application registers services of any lifecycle and creates a scope, then
\* resolves from the scope, stores context values in it and ends it, on every
\* thread.
NextEnd ==
    \/ \E n \in Names, lifecycle \in Lifecycles :
          ~services[n].exists /\ Register(n, TRUE, lifecycle, <<>>)
    \/ \E s \in EndScopes : BeginScope(s)
    \/ \E s \in EndScopes, key \in Keys : ScopeSet(s, key)
    \/ \E t \in Threads, s \in EndScopes, n \in Names :
          Started < MaxLifecycleCalls /\ CallScopeResolve(t, s, n)
    \/ \E t \in Threads, s \in EndScopes :
          Started < MaxLifecycleCalls /\ CallScopeEnd(t, s)
    \/ \E t \in Threads : ScopeResolveBegin(t)
    \/ \E t \in Threads : ScopeResolveParent(t)
    \/ \E t \in Threads : ScopeFactoryReturns(t, EndKinds)
    \/ \E t \in Threads : ScopeEndStep(t)
    \/ \E t \in Threads : LeafResolveStep(t)

SpecEnd == Init /\ [][NextEnd]_vars

\* The finished calls of End on scope s, as <<thread, index>> pairs.
FinishedEnds(s) == {c \in Finished("ScopeEnd", "") : Result(c).scope = s}

\* hooks[i] is an invocation of Dispose.
DisposedAt(i) == hooks[i].hook = "Dispose"

\* C12: the ended flag of a scope never reverts once set; the first End ends the
\* scope (at most one End call per scope returns anything but ScopeEnded, and a
\* scope on which an End call has returned is ended); an End call entered on an
\* ended scope returns ScopeEnded at once and invokes no Dispose, and no instance
\* is ever disposed twice.
C12_EndedNeverReverts ==
    /\ [][/\ \A s \in ScopeIds : scopes[s].ended => scopes'[s].ended
          /\ \A t \in Threads :
                (/\ At(t, "ScopeEnd", "begin")
                 /\ scopes[Top(t).scope].ended
                 /\ stack'[t] # stack[t])
                => /\ stack'[t] = <<>>
                   /\ calls'[t] = Append(calls[t], [fn |-> "ScopeEnd", name |-> "",
                                                    scope |-> Top(t).scope,
                                                    val |-> NilInst, err |-> ErrScopeEnded])
                   /\ hooks' = hooks]_vars
    /\ [](\A s \in ScopeIds :
            /\ Cardinality({c \in FinishedEnds(s) : Result(c).err # ErrScopeEnded}) <= 1
            /\ FinishedEnds(s) # {} => scopes[s].ended
            /\ \A c \in FinishedEnds(s) :
                  Result(c).err = ErrScopeEnded =>
                      \A i \in HookIdx : DisposedAt(i) => ~InCall(i, c[1], c[2]))
    /\ [](\A i, j \in HookIdx :
            (i # j /\ DisposedAt(i) /\ DisposedAt(j)) => hooks[i].inst # hooks[j].inst)

\* A scope that held a disposable instance was ended by one End call, which
\* disposed of the instance, and a later End call on it returned ScopeEnded.
C12_Witness ==
    \E s \in ScopeIds :
        /\ scopes[s].ended
        /\ \E c1, c2 \in FinishedEnds(s) :
            /\ Result(c1).err # ErrScopeEnded
            /\ Result(c2).err = ErrScopeEnded
            /\ \E i \in HookIdx : DisposedAt(i) /\ InCall(i, c1[1], c1[2])

\* The finished calls of Resolve on scope s that returned an instance of a scoped
\* name, as <<thread, index>> pairs.
ScopedResolved(s) ==
    {c \in Threads \X (1..MaxLifecycleCalls) :
        /\ c[2] <= Len(calls[c[1]])
        /\ Result(c).fn = "ScopeResolve"
        /\ Result(c).scope = s
        /\ Result(c).err = NoErr
        /\ services[Result(c).name].scoped}

\* C13: when an End call has ended a scope, it has invoked Dispose on every
\* disposable instance that the scope had created for a scoped name, whether or
\* not an earlier Dispose of the call failed; it has returned the aggregate error
\* if one of these Dispose failed and no error otherwise; and the scope is ended,
\* with its instance and context maps empty.
C13_EndDisposesAll ==
    \A s \in ScopeIds :
        \A c \in FinishedEnds(s) :
            Result(c).err # ErrScopeEnded =>
                /\ \A r \in ScopedResolved(s) :
                      Result(r).val.disp =>
                          \E i \in HookIdx :
                              /\ DisposedAt(i) /\ InCall(i, c[1], c[2])
                              /\ hooks[i].inst = Result(r).val.id
                /\ Result(c).err =
                      IF \E i \in HookIdx : DisposedAt(i) /\ InCall(i, c[1], c[2]) /\ ~hooks[i].ok
                      THEN ErrScopeCleanup ELSE NoErr
                /\ scopes[s].ended
                /\ scopes[s].instances = NoInstances
                /\ scopes[s].context = {}

\* An End call has disposed of two instances although the first Dispose failed,
\* and has returned the aggregate error.
C13_Witness ==
    \E s \in ScopeIds :
        \E c \in FinishedEnds(s) :
            /\ Result(c).err = ErrScopeCleanup
            /\ \E i, j \in HookIdx :
                /\ i < j
                /\ DisposedAt(i) /\ InCall(i, c[1], c[2]) /\ ~hooks[i].ok
                /\ DisposedAt(j) /\ InCall(j, c[1], c[2])

\* C14: once an End call on a scope has returned, the step with which a thread
\* enters Resolve on that scope ends the call: it returns ScopeEnded, whatever
\* the name and its lifecycle, no factory is invoked, no call of the container is
\* made, and neither the registrations nor the scope change.
C14_ResolveAfterEndFails ==
    [][\A t \in Threads :
          (/\ At(t, "ScopeResolve", "begin")
           /\ FinishedEnds(Top(t).scope) # {}
           /\ stack'[t] # stack[t])
          => /\ stack'[t] = <<>>
             /\ calls'[t] = Append(calls[t], [fn |-> "ScopeResolve", name |-> Top(t).name,
                                              scope |-> Top(t).scope,
                                              val |-> NilInst, err |-> ErrScopeEnded])
             /\ factories' = factories
             /\ services' = services
             /\ scopes' = scopes
             /\ hooks' = hooks]_vars

\* After an End call on a scope returned, Resolve calls on it for a singleton and
\* for a name of another lifecycle have both returned ScopeEnded.
C14_Witness ==
    \E s \in ScopeIds, n1, n2 \in Names :
        /\ FinishedEnds(s) # {}
        /\ services[n1].singleton
        /\ services[n2].exists /\ ~services[n2].singleton
        /\ \E c1 \in FinishedInScope(s, n1), c2 \in FinishedInScope(s, n2) :
            /\ Result(c1).err = ErrScopeEnded
            /\ Result(c2).err = ErrScopeEnded

\* --------------------------------------------------------- the graph by itself
\* The application builds a DependencyGraph of its own and sorts it.
MaxNodes == 3
MaxDeps == 2

\* The lists of at most MaxDeps different names.
NameLists ==
    {l \in UNION {[1..k -> GraphNames] : k \in 0..MaxDeps} :
        \A i, j \in DOMAIN l : i # j => l[i] # l[j]}

\* The lists of dependency specs, eager or lazy, on at most MaxDeps different names.
DepSpecLists ==
    {l \in UNION {[1..k -> {Eager(n) : n \in GraphNames} \cup {Lazy(n) : n \in GraphNames}] :
                    k \in 0..MaxDeps} :
        \A i, j \in DOMAIN l : i # j => l[i].name # l[j].name}

\* g.AddNode(name, dependencies), on a graph that was not sorted yet.
GraphAddNode(name, dependencies) ==
    /\ lastSort = NoSort
    /\ Len(graph.order) < MaxNodes
    /\ graph' = AddNode(graph, name, dependencies)
    /\ UNCHANGED <<services, middleware, cstarted, cmu, regmu, scopes, stack, ret, calls,
                   nextInst, factories, hooks, regErr, lastSort, typeRegistry, constructed, provided>>

\* g.AddNodeWithDeps(name, deps), on a graph that was not sorted yet.
GraphAddNodeWithDeps(name, deps) ==
    /\ lastSort = NoSort
    /\ Len(graph.order) < MaxNodes
    /\ graph' = AddNodeWithDeps(graph, name, deps)
    /\ UNCHANGED <<services, middleware, cstarted, cmu, regmu, scopes, stack, ret, calls,
                   nextInst, factories, hooks, regErr, lastSort, typeRegistry, constructed, provided>>

\* g.TopologicalSort()
GraphSort ==
    /\ lastSort' = [fn |-> "TopologicalSort",
                    order |-> TopologicalSort(graph).order,
                    err |-> TopologicalSort(graph).err]
    /\ UNCHANGED <<services, graph, middleware, cstarted, cmu, regmu, scopes, stack, ret,
                   calls, nextInst, factories, hooks, regErr, typeRegistry, constructed, provided>>

\* g.TopologicalSortEagerOnly()
GraphSortEagerOnly ==
    /\ lastSort' = [fn |-> "TopologicalSortEagerOnly",
                    order |-> TopologicalSortEagerOnly(graph).order,
                    err |-> TopologicalSortEagerOnly(graph).err]
    /\ UNCHANGED <<services, graph, middleware, cstarted, cmu, regmu, scopes, stack, ret,
                   calls, nextInst, factories, hooks, regErr, typeRegistry, constructed, provided>>

NextGraph ==
    \/ \E n \in GraphNames, dependencies \in NameLists : GraphAddNode(n, dependencies)
    \/ \E n \in GraphNames, deps \in DepSpecLists :
          ~graph.nodes[n].present /\ GraphAddNodeWithDeps(n, deps)
    \/ GraphSort
    \/ GraphSortEagerOnly

SpecGraph == Init /\ [][NextGraph]_vars

\* The names added to the graph.
Registered(g) == {n \in GraphNames : g.nodes[n].present}

\* n declares the dependency d, and both were added to the graph.
DependsOn(g, n, d) ==
    /\ n \in Registered(g) /\ d \in Registered(g)
    /\ \E k \in 1..Len(g.nodes[n].dependencies) : g.nodes[n].dependencies[k] = d

\* The same, for a dependency that is not declared lazy.
DependsEagerlyOn(g, n, d) ==
    /\ n \in Registered(g) /\ d \in Registered(g)
    /\ \E k \in 1..Len(g.nodes[n].deps) : g.nodes[n].deps[k].name = d /\ g.nodes[n].deps[k].mode # "lazy"

\* The chains of two or more names: a path of the graph is a chain whose
\* consecutive names are linked by a dependency.
Chains == UNION {[1..k -> GraphNames] : k \in 2..(Cardinality(GraphNames) + 1)}

\* n depends on d, directly or transitively.
Reaches(g, n, d) ==
    \E p \in Chains :
        /\ p[1] = n /\ p[Len(p)] = d
        /\ \A k \in 1..(Len(p) - 1) : DependsOn(g, p[k], p[k + 1])

ReachesEagerly(g, n, d) ==
    \E p \in Chains :
        /\ p[1] = n /\ p[Len(p)] = d
        /\ \A k \in 1..(Len(p) - 1) : DependsEagerlyOn(g, p[k], p[k + 1])

\* The declarations hold a cycle among the names added (a self-loop included).
HasCycle(g) == \E n \in GraphNames : Reaches(g, n, n)
HasEagerCycle(g) == \E n \in GraphNames : ReachesEagerly(g, n, n)

\* The order holds every name added exactly once and no other name.
IsOrderOf(order, g) ==
    /\ \A n \in Registered(g) : Cardinality({k \in 1..Len(order) : order[k] = n}) = 1
    /\ \A k \in 1..Len(order) : order[k] \in Registered(g)

\* C15: when the declarations hold no cycle, TopologicalSort returns no error and
\* an order that holds every name added exactly once, no name that was never
\* added, and every added dependency of a name before that name.
C15_AcyclicSortIsTopological ==
    (lastSort.fn = "TopologicalSort" /\ ~HasCycle(graph)) =>
        /\ lastSort.err = NoErr
        /\ IsOrderOf(lastSort.order, graph)
        /\ \A n, d \in GraphNames :
              DependsOn(graph, n, d) => Pos(lastSort.order, d) < Pos(lastSort.order, n)

\* An acyclic graph was sorted in which a name added first depends on a name
\* added later and on a name never added, and a name was added twice.
C15_Witness ==
    /\ lastSort.fn = "TopologicalSort"
    /\ ~HasCycle(graph)
    /\ Len(graph.order) = MaxNodes
    /\ \E n, d, m \in GraphNames :
        /\ DependsOn(graph, n, d)
        /\ Pos(graph.order, n) < Pos(graph.order, d)
        /\ m \notin Registered(graph)
        /\ \E k \in 1..Len(graph.nodes[n].dependencies) : graph.nodes[n].dependencies[k] = m
        /\ Cardinality({k \in 1..Len(graph.order) : graph.order[k] = n}) = 2

\* C16: when the declarations hold a cycle among the names added, a self-loop
\* included, TopologicalSort returns the CircularDependency error of a name that
\* lies on a cycle, and no order at all.
C16_CyclicSortFails ==
    (lastSort.fn = "TopologicalSort" /\ HasCycle(graph)) =>
        /\ lastSort.err.kind = "CircularDependency"
        /\ Reaches(graph, lastSort.err.name, lastSort.err.name)
        /\ lastSort.order = <<>>

\* A graph was sorted that holds a cycle of two names and no self-loop, and a
\* name without dependencies that was added before them.
C16_Witness ==
    /\ lastSort.fn = "TopologicalSort"
    /\ lastSort.err.kind = "CircularDependency"
    /\ \A n \in GraphNames : ~DependsOn(graph, n, n)
    /\ \E n, d, m \in GraphNames :
        /\ n # d /\ DependsOn(graph, n, d) /\ DependsOn(graph, d, n)
        /\ graph.order[1] = m
        /\ graph.nodes[m].dependencies = <<>>

\* The position at which a name was first added to the graph.
FirstPos(g, n) == CHOOSE k \in 1..Len(g.order) : g.order[k] = n /\ \A j \in 1..(k - 1) : g.order[j] # n

\* Neither name depends on the other, directly or transitively.
Unrelated(g, n, m) == n # m /\ ~Reaches(g, n, m) /\ ~Reaches(g, m, n)

RECURSIVE EagerOf(_)
EagerOf(deps) ==
    IF deps = <<>> THEN <<>>
    ELSE IF deps[1].mode = "lazy" THEN EagerOf(Tail(deps))
    ELSE <<deps[1]>> \o EagerOf(Tail(deps))

\* The graph without the dependencies declared lazy.
WithoutLazy(g) ==
    [g EXCEPT !.nodes = [n \in GraphNames |->
        [g.nodes[n] EXCEPT !.deps = EagerOf(g.nodes[n].deps),
                           !.dependencies = DepNames(EagerOf(g.nodes[n].deps))]]]

\* C19: TopologicalSortEagerOnly returns what TopologicalSort returns for the
\* graph without its lazy dependencies; it returns CircularDependency, and no
\* order, exactly when the added names hold a cycle made of non-lazy dependencies
\* only, and otherwise an order that holds every name added exactly once, with
\* every added non-lazy dependency of a name before that name.
C19_EagerOnlySortIgnoresLazy ==
    lastSort.fn = "TopologicalSortEagerOnly" =>
        /\ lastSort.order = TopologicalSort(WithoutLazy(graph)).order
        /\ lastSort.err = TopologicalSort(WithoutLazy(graph)).err
        /\ IF HasEagerCycle(graph) THEN
               /\ lastSort.err.kind = "CircularDependency"
               /\ lastSort.order = <<>>
           ELSE
               /\ lastSort.err = NoErr
               /\ IsOrderOf(lastSort.order, graph)
               /\ \A n, d \in GraphNames :
                     DependsEagerlyOn(graph, n, d) => Pos(lastSort.order, d) < Pos(lastSort.order, n)

\* A graph was sorted by its eager dependencies in which a cycle is closed by a
\* lazy dependency only: the sort returned an order, with the eager dependency
\* placed before its dependent.
C19_Witness ==
    /\ lastSort.fn = "TopologicalSortEagerOnly"
    /\ lastSort.err = NoErr
    /\ HasCycle(graph) /\ ~HasEagerCycle(graph)
    /\ \E n, d \in GraphNames :
        /\ n # d
        /\ DependsEagerlyOn(graph, n, d)
        /\ DependsOn(graph, d, n)
        /\ Pos(graph.order, n) < Pos(graph.order, d)

\* ---------------------------------------------- Start with lazy dependencies
\* The dependency lists a registration of n declares: none, or one other name,
\* eager or lazy.
LazyDepLists(n) == DepLists(n) \cup {<<Lazy(m)>> : m \in Names \ {n}}

\* The application registers singletons with eager and lazy dependencies, then
\* starts the container.
NextLazyStart ==
    \/ \E n \in Names : \E deps \in LazyDepLists(n) :
          ~services[n].exists /\ Register(n, TRUE, "singleton", deps)
    \/ \E t \in Threads : Started < MaxCalls /\ CallStart(t)
    \/ \E t \in Threads : StartStep(t)
    \/ \E t \in Threads : LeafResolveStep(t)

SpecLazyStart == Init /\ [][NextLazyStart]_vars

\* C17 as stated: when the registered names hold no cycle of non-lazy
\* dependencies, no Start call fails with CircularDependency.
C17_LazyCycleDoesNotFailStart ==
    \A c \in FinishedCalls("Start") :
        ~HasEagerCycle(graph) => Result(c).err.kind # "CircularDependency"

\* ------------------------------------------------ constructors and their types
\* ProvideConstructor's "asReg := &typeRegistration{...}": the k-th as-type gets
\* a registration of its own, next to the registration r of the result type.
AsReg(r, k) == r + k

\* A ProvideConstructor that gives every alias a registration of its own.
AliasOwnReg(r) == r + 1

\* ProvideConstructor's "register(aliasKey, reg)": an alias of the result type is
\* one more key of the registration r of the result type.
AliasReg(r) == r

\* The keys that ProvideConstructor registers for the aliases from position i
\* on, in order: the result type under the alias, with the registration r, then
\* every as-type under the alias, with the registration found under the as-type
\* and the name.
RECURSIVE aliasPairs(_, _, _, _, _)
aliasPairs(result, r, asTypes, aliases, i) ==
    IF i > Len(aliases) THEN <<>>
    ELSE <<<< <<result, aliases[i]>>, AliasReg(r) >>>>
         \o [k \in 1..Len(asTypes) |-> << <<asTypes[k], aliases[i]>>, AsReg(r, k) >>]
         \o aliasPairs(result, r, asTypes, aliases, i + 1)

\* The keys, each with its registration, that ProvideConstructor registers, in
\* order, for a constructor whose registration of the result type is r.
providePairs(result, r, name, asTypes, aliases) ==
    <<<< <<result, name>>, r >>>>
    \o [k \in 1..Len(asTypes) |-> << <<asTypes[k], name>>, AsReg(r, k) >>]
    \o aliasPairs(result, r, asTypes, aliases, 1)

\* The registrations made so far.
CreatedRegs == {r \in RegIds : typeRegistry.regs[r].created}

\* ProvideConstructor(c, constructor, WithName(name), As(asTypes...),
\* WithAliases(aliases...)) with the lifecycle option, for a constructor that
\* takes parameters of the types params and returns a value of the type result:
\* the first key that is registered already ends the call with an error, the keys
\* registered before it stay.
ProvideConstructor(result, params, name, lifecycle, asTypes, aliases) ==
    /\ Setup
    /\ Cardinality(CreatedRegs) + 1 + Len(asTypes) <= MaxRegs
    /\ LET r == Cardinality(CreatedRegs) + 1
           made == {r} \cup {AsReg(r, k) : k \in 1..Len(asTypes)}
           pairs == providePairs(result, r, name, asTypes, aliases)
           tr == [typeRegistry EXCEPT !.regs = [x \in RegIds |->
                     IF x \in made
                     THEN [NoTypeReg EXCEPT !.created = TRUE, !.result = result,
                                            !.params = params, !.lifecycle = lifecycle]
                     ELSE @[x]]]
           out == registerAll(tr, pairs, 1)
       IN  /\ typeRegistry' = out.registry
           /\ regErr' = out.err
           /\ provided' = Append(provided,
                  [keys |-> [k \in 1..Len(pairs) |-> pairs[k][1]],
                   before |-> typeRegistry.services,
                   err |-> out.err])
    /\ UNCHANGED <<services, graph, middleware, cstarted, cmu, regmu, scopes, stack, ret,
                   calls, nextInst, factories, hooks, lastSort, constructed>>

\* InjectNamed[T], InjectNamed[U] and InjectNamed[I]: the generic function,
\* instantiated; with the name "" it is InjectType. resolveParam for a parameter
\* of each result type.
InjectFns == {"InjectNamed[T]", "InjectNamed[U]", "InjectNamed[I]"}
ParamFns == {"resolveParam[T]", "resolveParam[U]"}
InjectFn(typ) ==
    IF typ = "T" THEN "InjectNamed[T]"
    ELSE IF typ = "U" THEN "InjectNamed[U]" ELSE "InjectNamed[I]"
ParamFn(typ) == IF typ = "T" THEN "resolveParam[T]" ELSE "resolveParam[U]"
TypeOfFn(fn) ==
    IF fn \in {"InjectNamed[T]", "resolveParam[T]"} THEN "T"
    ELSE IF fn \in {"InjectNamed[U]", "resolveParam[U]"} THEN "U" ELSE "I"
CallInjectNamed(t, typ, name) == Call(t, InjectFn(typ), name, 0)

\* The key an InjectNamed or resolveParam frame resolves.
KeyOf(f) == <<TypeOfFn(f.fn), f.name>>

\* A registration that is never found under construction.
NeverConstructing(reg) == FALSE

\* typeRegistration.resolve's test "if reg.constructing".
Constructing(reg) == reg.constructing

\* The factory made by createAutoResolveFactory, at its i-th parameter, for the
\* registration r that the top frame resolves: resolveParam of the parameter (an
\* unnamed key of its type; a key without registration ends the factory with an
\* error), or, after the last parameter, the call of the constructor.
AutoResolve(t, r, i) ==
    LET params == typeRegistry.regs[r].params
    IN  IF i > Len(params) THEN
            /\ constructed' = constructed + 1
            /\ typeRegistry' = [typeRegistry EXCEPT !.regs[r].constructing = TRUE]
            /\ Goto(t, [Top(t) EXCEPT !.pc = "constructor"])
        ELSE IF typeRegistry.services[<<params[i], "">>] = 0 THEN
            /\ typeRegistry' = [typeRegistry EXCEPT !.regs[r].constructing = FALSE]
            /\ Return(t, NilInst, ErrNoProvider)
            /\ UNCHANGED constructed
        ELSE
            /\ typeRegistry' = [typeRegistry EXCEPT !.regs[r].constructing = TRUE]
            /\ stack' = WithCall(t, [Top(t) EXCEPT !.pc = "param", !.i = i],
                                 NewFrame(ParamFn(params[i]), "", 0))
            /\ UNCHANGED <<ret, calls, constructed>>

\* InjectNamed or resolveParam, typeRegistry.resolve and typeRegistration.resolve
\* up to the call of the factory, which is made with reg.mu released, and the
\* factory up to its first resolveParam or to the call of the constructor.
TypeResolveBegin(t) ==
    /\ ~Idle(t)
    /\ Top(t).fn \in InjectFns \cup ParamFns
    /\ Top(t).pc = "begin"
    /\ LET r == typeRegistry.services[KeyOf(Top(t))]
           reg == typeRegistry.regs[r]
       IN  IF r = 0 THEN
               /\ Return(t, NilInst, ErrTypeNotRegistered)
               /\ UNCHANGED <<typeRegistry, constructed>>
           ELSE IF Constructing(reg) THEN
               /\ Return(t, NilInst, ErrTypeCircular)
               /\ UNCHANGED <<typeRegistry, constructed>>
           ELSE IF reg.lifecycle = "singleton" /\ reg.instance # NilInst THEN
               /\ Return(t, reg.instance, NoErr)
               /\ UNCHANGED <<typeRegistry, constructed>>
           ELSE
               AutoResolve(t, r, 1)
    /\ UNCHANGED <<services, graph, middleware, cstarted, cmu, regmu, scopes, nextInst,
                   factories, hooks, regErr, lastSort, provided>>

\* The factory after resolveParam returned: its error ends the factory, and
\* typeRegistration.resolve clears constructing and returns the error; otherwise
\* on to the next parameter or to the call of the constructor.
TypeParamResolved(t) ==
    /\ ~Idle(t)
    /\ Top(t).fn \in InjectFns \cup ParamFns
    /\ Top(t).pc = "param"
    /\ LET r == typeRegistry.services[KeyOf(Top(t))]
       IN  IF ret[t].err # NoErr THEN
               /\ typeRegistry' = [typeRegistry EXCEPT !.regs[r].constructing = FALSE]
               /\ Return(t, NilInst, ret[t].err)
               /\ UNCHANGED constructed
           ELSE
               AutoResolve(t, r, Top(t).i + 1)
    /\ UNCHANGED <<services, graph, middleware, cstarted, cmu, regmu, scopes, nextInst,
                   factories, hooks, regErr, lastSort, provided>>

\* typeRegistration.resolve from the return of the constructor on: it returned an
\* error or a new value of its result type; a singleton registration caches it.
TypeFactoryReturn(t) ==
    /\ ~Idle(t)
    /\ Top(t).fn \in InjectFns \cup ParamFns
    /\ Top(t).pc = "constructor"
    /\ \E ok \in BOOLEAN :
        LET r == typeRegistry.services[KeyOf(Top(t))]
            reg == typeRegistry.regs[r]
            instance == NewInst(nextInst, FALSE)
        IN  IF ~ok THEN
                /\ typeRegistry' = [typeRegistry EXCEPT !.regs[r].constructing = FALSE]
                /\ Return(t, NilInst, ConstructorErr)
                /\ UNCHANGED nextInst
            ELSE
                /\ typeRegistry' = [typeRegistry EXCEPT
                       !.regs[r].constructing = FALSE,
                       !.regs[r].instance = IF reg.lifecycle = "singleton" THEN instance ELSE @]
                /\ nextInst' = nextInst + 1
                /\ Return(t, instance, NoErr)
    /\ UNCHANGED <<services, graph, middleware, cstarted, cmu, regmu, scopes, factories,
                   hooks, regErr, lastSort, constructed, provided>>

\* The lists of as-types and of aliases given to ProvideConstructor.
AsTypeLists == {<<>>, <<"I">>}
AliasLists == {<<>>} \cup {<<a>> : a \in TypeNames}

\* The application provides one constructor, without parameters, then resolves
\* its types by any key on every thread.
NextTypes ==
    \/ \E name \in TypeNames, lifecycle \in {"singleton", "transient"},
          asTypes \in AsTypeLists, aliases \in AliasLists :
          provided = <<>> /\ ProvideConstructor("T", <<>>, name, lifecycle, asTypes, aliases)
    \/ \E t \in Threads, typ \in {"T", "I"}, name \in TypeNames :
          Started < MaxLifecycleCalls /\ CallInjectNamed(t, typ, name)
    \/ \E t \in Threads : TypeResolveBegin(t)
    \/ \E t \in Threads : TypeFactoryReturn(t)

SpecTypes == Init /\ [][NextTypes]_vars

\* The finished calls of InjectNamed for a type and a name, as <<thread, index>> pairs.
FinishedInject(typ, name) == Finished(InjectFn(typ), name)

\* C20 as stated: for a singleton constructor registered under a name with an
\* as-type, the calls that resolved the name by the result type and by the
\* as-type returned the same instance, and as long as no call returned an error
\* the constructor has run at most once.
C20_AsTypesShareInstance ==
    \A name \in TypeNames :
        LET r == typeRegistry.services[<<"T", name>>]
        IN  (/\ r # 0
             /\ typeRegistry.regs[r].lifecycle = "singleton"
             /\ typeRegistry.services[<<"I", name>>] # 0)
            => /\ \A c1 \in FinishedInject("T", name), c2 \in FinishedInject("I", name) :
                     (Result(c1).err = NoErr /\ Result(c2).err = NoErr)
                     => Result(c1).val = Result(c2).val
               /\ (\A t \in Threads : \A k \in 1..Len(calls[t]) : calls[t][k].err = NoErr)
                     => constructed <= 1

\* The finished top-level calls that returned the error of the constructor.
ConstructorFailures ==
    {c \in Threads \X (1..MaxLifecycleCalls) :
        c[2] <= Len(calls[c[1]]) /\ Result(c).err = ConstructorErr}

MaxProvides == 2

\* The parameter lists of the constructors: none, or one parameter of a result type.
CtorParams == {<<>>} \cup {<<typ>> : typ \in ResultTypes}

TypeStep(t) ==
    \/ TypeResolveBegin(t)
    \/ TypeParamResolved(t)
    \/ TypeFactoryReturn(t)

\* ProvideConstructor's "lifecycle: "singleton"": the lifecycle of a constructor
\* provided without a lifecycle option.
DefaultLifecycle == "singleton"

\* The application provides constructors for the result types, with parameters,
\* names and aliases, then resolves the result types by any key on every thread.
NextCtors ==
    \/ \E result \in ResultTypes, params \in CtorParams, name \in TypeNames,
          aliases \in AliasLists :
          Len(provided) < MaxProvides
          /\ ProvideConstructor(result, params, name, DefaultLifecycle, <<>>, aliases)
    \/ \E t \in Threads, typ \in ResultTypes, name \in TypeNames :
          Started < MaxCalls /\ CallInjectNamed(t, typ, name)
    \/ \E t \in Threads : TypeStep(t)

SpecCtors == Init /\ [][NextCtors]_vars

\* Every thread that can take a step eventually takes one: a constructor returns,
\* and the scheduler starves no thread.
FairCtors == SpecCtors /\ \A t \in Threads : WF_vars(TypeStep(t))

\* The registration that the first parameter of the constructor of registration
\* r resolves to; 0 when the constructor has no parameter or nothing provides it.
ParamReg(r) ==
    IF typeRegistry.regs[r].params = <<>> THEN 0
    ELSE typeRegistry.services[<<typeRegistry.regs[r].params[1], "">>]

\* The chain of parameters that starts at registration r is still going on after
\* n more registrations.
RECURSIVE ChainGoesOn(_, _)
ChainGoesOn(r, n) ==
    IF r = 0 THEN FALSE
    ELSE IF n = 0 THEN TRUE
    ELSE ChainGoesOn(ParamReg(r), n - 1)

\* The parameters of the constructor of registration r form, or lead into, a
\* circular chain: the chain never ends.
CircularChain(r) == ChainGoesOn(r, MaxRegs)

\* The thread runs a top-level InjectNamed call for a key whose constructor has a
\* circular parameter chain.
InCircularCall(t) ==
    /\ ~Idle(t)
    /\ stack[t][1].fn \in InjectFns
    /\ CircularChain(typeRegistry.services[KeyOf(stack[t][1])])

Conflicts(i) ==
    LET p == provided[i]
    IN  \/ \E j \in 1..Len(p.keys) : p.before[p.keys[j]] # 0
        \/ \E j1, j2 \in 1..Len(p.keys) : j1 # j2 /\ p.keys[j1] = p.keys[j2]

\* C23: a ProvideConstructor call whose primary key or one of whose alias keys is
\* present in the type registry already (or that names one key twice) returns
\* the conflict error, a call without such a key returns no error, and every key
\* that was registered before a call still leads to the registration it led to.
C23_DuplicateKeyFails ==
    \A i \in 1..Len(provided) :
        /\ provided[i].err = IF Conflicts(i) THEN ErrTypeAlreadyRegistered ELSE NoErr
        /\ \A key \in TypeKeys :
              provided[i].before[key] # 0 =>
                  typeRegistry.services[key] = provided[i].before[key]

\* A second constructor was provided under a new name with an alias that is the
\* name of the first: the call returned the conflict error, and the name still
\* leads to the registration of the first constructor.
C23_Witness ==
    /\ Len(provided) = 2
    /\ provided[2].err = ErrTypeAlreadyRegistered
    /\ Len(provided[2].keys) = 2
    /\ provided[2].before[provided[2].keys[1]] = 0
    /\ provided[2].before[provided[2].keys[2]] = 1
    /\ typeRegistry.services[provided[2].keys[2]] = 1
    /\ typeRegistry.regs[1].instance # NilInst

\* ------------------------------------------------------ the started flag
\* C24 as stated: a registration is marked started only if its instance
\* implements di.Service and an invocation of the Start hook of that instance,
\* by an auto-start or by Start, has succeeded.
C24_StartedOnlyAfterStart ==
    \A n \in Names :
        services[n].started =>
            /\ services[n].instance.svc
            /\ \E i \in HookIdx :
                  /\ StartedAt(i)
                  /\ hooks[i].name = n
                  /\ hooks[i].inst = services[n].instance.id

\* ------------------------------------------------- the cache of a registration
\* The invocations of the factory of a name by the container that are in progress.
FactoriesRunning(n) ==
    Cardinality({<<t, k>> \in Threads \X (1..(MaxCalls + MaxDepth + 1)) :
        /\ k <= Len(stack[t])
        /\ stack[t][k].fn = "Resolve"
        /\ stack[t][k].name = n
        /\ stack[t][k].pc \in {"factory", "factoryRet"}})

\* C25: a registration caches an instance only after an invocation of its
\* factory has returned that instance without error; and the step in which a
\* factory returns an error ends the resolution, which returns to its caller the
\* ServiceError of the name with operation resolve (unless a failing
\* afterResolve middleware replaces it), and changes no registration.
C25_CacheOnlyAfterFactorySuccess ==
    /\ [](\A n \in Names :
            services[n].instance # NilInst =>
                factories[<<0, n>>].runs - FactoriesRunning(n)
                    - factories[<<0, n>>].errs - factories[<<0, n>>].nils >= 1)
    /\ [][\A t \in Threads, n \in Names :
            (/\ ~Idle(t)
             /\ Top(t).fn = "Resolve" /\ Top(t).name = n
             /\ Top(t).pc \in {"factory", "factoryRet"}
             /\ stack'[t] # stack[t]
             /\ factories'[<<0, n>>].errs > factories[<<0, n>>].errs)
            => /\ stack'[t] = SubSeq(stack[t], 1, Len(stack[t]) - 1)
               /\ (IF Len(stack[t]) = 1 THEN calls'[t][Len(calls'[t])].err ELSE ret'[t].err)
                     \in {NewServiceError(n, "resolve", FactoryErr)}
                         \cup (IF middleware > 0 THEN {MwErr} ELSE {})
               /\ services' = services
               /\ hooks' = hooks]_vars

\* The factory of a name returned an error, which a Resolve call returned wrapped
\* with nothing cached meanwhile; a later invocation returned an instance, which
\* the registration caches.
C25_Witness ==
    \E n \in Names :
        /\ factories[<<0, n>>].errs = 1
        /\ factories[<<0, n>>].runs = 2
        /\ services[n].instance # NilInst
        /\ \E c \in Finished("Resolve", n) :
              Result(c).err = NewServiceError(n, "resolve", FactoryErr)

\* ------------------------------------------------------ transient resolution
\* Every call made so far is a Resolve call of the application.
OnlyResolveCalls ==
    \A t \in Threads :
        /\ \A k \in 1..Len(calls[t]) : calls[t][k].fn = "Resolve"
        /\ Idle(t) \/ stack[t][1].fn = "Resolve"

\* The Resolve calls for a name that have got past the lookup of the registration.
ResolvesEntered(n) ==
    Cardinality(Finished("Resolve", n))
    + Cardinality({t \in Threads : ~Idle(t) /\ stack[t][1].name = n /\ stack[t][1].pc # "begin"})

\* C26: a transient registration never caches an instance and is never marked
\* started; every Resolve call for it invokes the factory once (as long as the
\* application has called nothing but Resolve, k calls make k invocations); and
\* the instances that the calls returned are pairwise distinct.
C26_TransientResolvesAnew ==
    \A n \in Names :
        (services[n].exists /\ ~services[n].singleton /\ ~services[n].scoped) =>
            /\ services[n].instance = NilInst
            /\ ~services[n].started
            /\ OnlyResolveCalls => factories[<<0, n>>].runs = ResolvesEntered(n)
            /\ \A c1, c2 \in Finished("Resolve", n) :
                  (c1 # c2 /\ Result(c1).val # NilInst) => Result(c1).val # Result(c2).val

\* One thread has resolved a transient name twice, one call after the other: the
\* factory has run twice, and the calls returned two different instances.
C26_Witness ==
    \E n \in Names, t \in Threads :
        /\ services[n].exists /\ ~services[n].singleton /\ ~services[n].scoped
        /\ factories[<<0, n>>].runs = 2
        /\ <<t, 1>> \in Finished("Resolve", n) /\ <<t, 2>> \in Finished("Resolve", n)
        /\ calls[t][1].val # NilInst /\ calls[t][2].val # NilInst
        /\ calls[t][1].val # calls[t][2].val

\* ------------------------------------------------ the container and its scopes
\* What the factories return here: a plain value or one that implements
\* di.Disposable.
ShadowKinds == {"plain", "disposable"}

\* The application registers services of any lifecycle and creates scopes; then
\* its main thread (thread 1) resolves from the container and ends scopes while
\* the other threads resolve from the scopes.
NextShadow ==
    \/ \E n \in Names, lifecycle \in Lifecycles :
          ~services[n].exists /\ Register(n, TRUE, lifecycle, <<>>)
    \/ \E s \in ScopeIds : BeginScope(s)
    \/ \E n \in Names :
          Started < MaxLifecycleCalls /\ CallResolve(1, n)
    \/ \E t \in Threads \ {1}, s \in ScopeIds, n \in Names :
          Started < MaxLifecycleCalls /\ CallScopeResolve(t, s, n)
    \/ \E s \in ScopeIds :
          Started < MaxLifecycleCalls /\ CallScopeEnd(1, s)
    \/ \E t \in Threads : ScopeResolveBegin(t)
    \/ \E t \in Threads : ScopeResolveParent(t)
    \/ \E t \in Threads : ScopeFactoryReturns(t, ShadowKinds)
    \/ \E t \in Threads : ScopeEndStep(t)
    \/ \E t \in Threads : ResolveBegin(t)
    \/ \E t \in Threads : ResolveFast(t)
    \/ \E t \in Threads : ResolveLock(t)
    \/ \E t \in Threads : FactoryReturns(t, ShadowKinds)

SpecShadow == Init /\ [][NextShadow]_vars

\* C27: a Resolve call on the container for a name registered as scoped returns
\* the error that tells to resolve it from a scope, and no value; the container
\* never invokes the factory of such a name, caches nothing for it and never
\* marks it started.
C27_ScopedFromContainerFails ==
    \A n \in Names :
        services[n].scoped =>
            /\ \A c \in Finished("Resolve", n) :
                  Result(c).err = ErrScopedFromContainer(n) /\ Result(c).val = NilInst
            /\ factories[<<0, n>>].runs = 0
            /\ services[n].instance = NilInst
            /\ ~services[n].started

\* A scoped name was resolved from a scope, which returned an instance, and from
\* the container, which returned the error.
C27_Witness ==
    \E n \in Names, s \in ScopeIds :
        /\ services[n].scoped
        /\ \E c \in FinishedInScope(s, n) : Result(c).err = NoErr /\ Result(c).val # NilInst
        /\ \E c \in Finished("Resolve", n) : Result(c).err = ErrScopedFromContainer(n)

\* The finished calls, on the container or on a scope, that resolved a name and
\* returned an instance, as <<thread, index>> pairs.
ResolvedAnywhere(n) ==
    {c \in Finished("Resolve", n) \cup Finished("ScopeResolve", n) :
        Result(c).err = NoErr /\ Result(c).val # NilInst}

\* C28: every call that resolved a singleton name, on the container or on any
\* scope, returned the one instance that the container caches; no scope records
\* a singleton among its own instances; and no End has invoked Dispose on the
\* instance of a singleton.
C28_ScopesShareSingletons ==
    \A n \in Names :
        services[n].singleton =>
            /\ \A c \in ResolvedAnywhere(n) : Result(c).val = services[n].instance
            /\ \A s \in ScopeIds : ~scopes[s].instances[n].ok
            /\ \A i \in HookIdx :
                  DisposedAt(i) =>
                      hooks[i].name # n /\ hooks[i].inst # services[n].instance.id

\* A singleton whose instance implements di.Disposable was resolved from a scope,
\* the scope was ended, and a Resolve call on the container returned the same
\* instance.
C28_Witness ==
    \E n \in Names, s \in ScopeIds :
        /\ services[n].singleton
        /\ services[n].instance.disp
        /\ \E c \in FinishedInScope(s, n) : Result(c).val = services[n].instance
        /\ \E c \in FinishedEnds(s) : Result(c).err # ErrScopeEnded
        /\ \E c \in Finished("Resolve", n) : Result(c).val = services[n].instance

\* ------------------------------------------------- Stop before any Start
\* C29: as long as no Start call has returned success, the container is not
\* marked started, every Stop call has returned success, and no Stop call has
\* invoked a Stop hook, whatever services the Resolve calls have started.
C29_StopBeforeStartIsNoOp ==
    ~StartSucceeded =>
        /\ ~cstarted
        /\ \A c \in FinishedCalls("Stop") : Result(c).err = NoErr
        /\ \A i \in HookIdx : hooks[i].top # "Stop"

\* A Resolve call has started a service, and a Stop call made afterwards, with no
\* Start call before it, has returned: the service is still marked started, and
\* its Stop hook was not invoked.
C29_Witness ==
    /\ FinishedCalls("Start") = {}
    /\ FinishedCalls("Stop") # {}
    /\ \E n \in Names, i \in HookIdx :
        /\ StartedAt(i) /\ hooks[i].name = n /\ hooks[i].top = "Resolve"
        /\ services[n].started /\ services[n].instance.svc
        /\ \A j \in HookIdx : hooks[j].hook # "Stop"
        /\ \E c \in FinishedCalls("Stop"), r \in Finished("Resolve", n) :
              r[1] # c[1] /\ Result(r).err = NoErr

\* ----------------------------------------------------------- ResolveReady
\* C30 as stated: when a ResolveReady call of a singleton name returns success, the
\* named service and every singleton the name declares as a dependency are
\* marked started.
C30_ResolveReadyStartsDependencies ==
    [][\A t \in Threads :
          (/\ Len(stack[t]) = 1
           /\ stack[t][1].fn = "ResolveReady"
           /\ stack'[t] = <<>>
           /\ calls'[t][Len(calls'[t])].err = NoErr
           /\ services[stack[t][1].name].singleton)
          => /\ services'[stack[t][1].name].started
             /\ \A d \in RegisteredDeps(stack[t][1].name) :
                   services[d].singleton => services'[d].started]_vars

\* ------------------------------------------- concurrent resolves of one type
\* C31 as stated: for a singleton constructor without parameters, registered under
\* a name (without as-types), no call that resolved the name returned a circular
\* dependency error, and as long as the constructor returned no error every call
\* returned the one instance the registration caches, made by the single run of
\* the constructor.
C31_ConcurrentTypeResolve ==
    \A name \in TypeNames :
        LET r == typeRegistry.services[<<"T", name>>]
        IN  (/\ regErr = NoErr
             /\ r # 0
             /\ typeRegistry.regs[r].lifecycle = "singleton"
             /\ \A n \in TypeNames : typeRegistry.services[<<"I", n>>] = 0)
            => /\ \A c \in FinishedInject("T", name) : Result(c).err # ErrTypeCircular
               /\ ConstructorFailures = {} =>
                    /\ constructed <= 1
                    /\ \A c \in FinishedInject("T", name) :
                          /\ Result(c).err = NoErr
                          /\ Result(c).val = typeRegistry.regs[r].instance

\* ------------------------------------------------------ Resolve after Stop
\* The main thread's last call was a Stop that returned success.
StoppedLast ==
    /\ Idle(1)
    /\ calls[1] # <<>>
    /\ calls[1][Len(calls[1])].fn = "Stop"
    /\ calls[1][Len(calls[1])].err = NoErr

\* That Stop call invoked the Stop hook of the service name, with success.
StoppedByLast(name) ==
    \E j \in HookIdx :
        /\ InCall(j, 1, Len(calls[1]))
        /\ hooks[j].hook = "Stop" /\ hooks[j].ok /\ hooks[j].name = name

\* C32 as stated: after a Stop call has returned success and before Start is called
\* again, no Resolve invokes the Start hook of a service that Stop stopped, and
\* the service stays unmarked.
C32_StoppedStaysStopped ==
    [][\A name \in Names :
          (StoppedLast /\ StoppedByLast(name) /\ Idle(1)')
          => /\ ~services'[name].started
             /\ ~(/\ Len(hooks') > Len(hooks)
                  /\ hooks'[Len(hooks')].hook = "Start"
                  /\ hooks'[Len(hooks')].name = name)]_vars

\* ------------------------------------------------------- Stop after a failed Stop
\* The k-th call of thread t is a Stop call that returned the stop error of a service.
FailedStop(t, k) ==
    /\ k <= Len(calls[t])
    /\ calls[t][k].fn = "Stop"
    /\ calls[t][k].err.kind = "ServiceError"
    /\ calls[t][k].err.op = "stop"

\* The Start hook of name was invoked after hooks[i].
StartedAgainAfter(i, name) ==
    \E j \in HookIdx : j > i /\ hooks[j].hook = "Start" /\ hooks[j].name = name

\* The invocations of Stop hooks made by the k-th call of thread t.
StopHooksOf(t, k) == {i \in HookIdx : InCall(i, t, k) /\ hooks[i].hook = "Stop"}

\* C33 as stated: when a Stop call has returned the stop error of a service, (1) as
\* long as the thread has made no further call the container is still marked
\* started and the services whose Stop hook succeeded in that call are unmarked,
\* and (2) the thread's next call, if it is a Stop, invokes the Stop hook of no
\* service that the failed call stopped, and the first Stop hook it invokes is
\* the one of the service at which the failed call stopped. A service whose
\* Start hook was invoked again after its Stop hook is left out.
C33_StopResumesAtFailure ==
    \A t \in Threads, k \in 1..MaxLifecycleCalls :
        FailedStop(t, k) =>
            /\ (Idle(t) /\ Len(calls[t]) = k) =>
                  /\ cstarted
                  /\ \A i \in StopHooksOf(t, k) :
                        (hooks[i].ok /\ ~StartedAgainAfter(i, hooks[i].name))
                            => ~services[hooks[i].name].started
            /\ \A j \in StopHooksOf(t, k + 1) :
                  /\ \A i \in StopHooksOf(t, k) :
                        (hooks[i].ok /\ ~StartedAgainAfter(i, hooks[i].name))
                            => hooks[j].name # hooks[i].name
                  /\ (/\ \A i \in StopHooksOf(t, k + 1) : j <= i
                      /\ ~\E h \in HookIdx : hooks[h].hook = "Start" /\ hooks[h].top # "Start")
                        => hooks[j].name = calls[t][k].err.name

\* ------------------------------------------------- Resolve after a failed auto-start
\* The error Resolve returns when the Start hook of the singleton name fails.
AutoStartError(name) == NewServiceError(name, "auto_start", StartErr)

\* The k-th call of thread t is a Resolve of name that returned the auto_start error.
FailedAutoStart(t, k, name) ==
    /\ k <= Len(calls[t])
    /\ calls[t][k].fn = "Resolve"
    /\ calls[t][k].name = name
    /\ calls[t][k].err = AutoStartError(name)

\* C34 as stated, for a container without middleware: (1) the step with which a
\* Resolve call returns the auto_start error of a singleton leaves the instance
\* cached and the service not marked started; (2) when the thread's next call is a
\* Resolve of the same name and has returned, that call has invoked the Start hook
\* of the cached instance again, and the factory has made no second instance.
C34_AutoStartRetried ==
    /\ [][\A t \in Threads :
            (/\ middleware = 0
             /\ Len(stack[t]) = 1
             /\ stack'[t] = <<>>
             /\ FailedAutoStart(t, Len(calls[t]) + 1, stack[t][1].name)')
            => /\ services'[stack[t][1].name].instance # NilInst
               /\ ~services'[stack[t][1].name].started]_vars
    /\ [](\A t \in Threads, k \in 1..MaxLifecycleCalls, name \in Names :
            (/\ middleware = 0
             /\ FailedAutoStart(t, k, name)
             /\ k + 1 <= Len(calls[t])
             /\ calls[t][k + 1].fn = "Resolve"
             /\ calls[t][k + 1].name = name)
            => /\ \E j \in HookIdx :
                    /\ InCall(j, t, k + 1)
                    /\ hooks[j].hook = "Start"
                    /\ hooks[j].name = name
                    /\ hooks[j].inst = services[name].instance.id
               /\ factories[<<0, name>>].runs
                    <= factories[<<0, name>>].errs + factories[<<0, name>>].nils + 1)

\* ------------------------------------------------- Start with scoped registrations
\* The application registers singletons and scoped services, then its main thread
\* starts the container while the other threads resolve services from it.
NextScopedStart ==
    \/ \E n \in Names, lifecycle \in {"singleton", "scoped"} :
          ~services[n].exists /\ Register(n, TRUE, lifecycle, <<>>)
    \/ Started < MaxCalls /\ CallStart(1)
    \/ \E t \in Threads \ {1}, n \in Names : Started < MaxCalls /\ CallResolve(t, n)
    \/ \E t \in Threads : StartStep(t)
    \/ \E t \in Threads : LeafResolveStep(t)

SpecScopedStart == Init /\ [][NextScopedStart]_vars

\* C35 as stated: no Start call has returned the error of a scoped registration.
C35_StartSkipsScoped ==
    \A c \in FinishedCalls("Start"), n \in Names :
        (services[n].exists /\ services[n].scoped) =>
            ~(Result(c).err.kind = "ServiceError" /\ Result(c).err.name = n)

\* ------------------------------------------------- instances started by Start
\* C36 as stated: every instance whose Start hook a Start call has invoked is the
\* instance its registration holds, where stopService finds it.
C36_StartRetainsInstances ==
    \A i \in HookIdx :
        (hooks[i].hook = "Start" /\ hooks[i].top = "Start") =>
            services[hooks[i].name].instance.id = hooks[i].inst

\* ------------------------------------------------- what Start's rollback stops
\* No Start call was made yet.
NoStartCalled ==
    /\ FinishedCalls("Start") = {}
    /\ \A t \in Threads : IF Idle(t) THEN TRUE ELSE stack[t][1].fn # "Start"

\* The application registers singletons, resolves some of them, and when these
\* calls have returned its main thread starts the container.
NextPreStart ==
    \/ \E n \in Names : \E deps \in DepLists(n) :
          ~services[n].exists /\ Register(n, TRUE, "singleton", deps)
    \/ \E t \in Threads, n \in Names :
          Started < MaxLifecycleCalls /\ NoStartCalled /\ CallResolve(t, n)
    \/ Started < MaxLifecycleCalls /\ (\A t \in Threads : Idle(t)) /\ CallStart(1)
    \/ \E t \in Threads : StartStep(t)
    \/ \E t \in Threads : LeafResolveStep(t)

SpecPreStart == Init /\ [][NextPreStart]_vars

\* C37 as stated: every Stop hook that a Start call invokes (in its rollback) is
\* the one of a service whose Start hook the same call has invoked before; a
\* service that a Resolve call started is not stopped by the rollback.
C37_RollbackStopsOwnOnly ==
    \A i \in HookIdx :
        (hooks[i].hook = "Stop" /\ hooks[i].top = "Start") =>
            \E j \in 1..(i - 1) :
                /\ InCall(j, hooks[i].t, hooks[i].call)
                /\ hooks[j].hook = "Start"
                /\ hooks[j].name = hooks[i].name

\* ------------------------------------------------------- concurrent Stop calls
\* The application registers singletons, its main thread starts the container,
\* and any thread stops it.
NextStops ==
    \/ \E n \in Names : \E deps \in DepLists(n) :
          ~services[n].exists /\ Register(n, TRUE, "singleton", deps)
    \/ Started < MaxLifecycleCalls /\ CallStart(1)
    \/ \E t \in Threads : Started < MaxLifecycleCalls /\ CallStop(t)
    \/ \E t \in Threads : StartStep(t)
    \/ \E t \in Threads : StopStep(t)
    \/ \E t \in Threads : LeafResolveStep(t)

SpecStops == Init /\ [][NextStops]_vars

\* C38 as stated: of two invocations of the Stop hook of a service made by Stop
\* calls, the first has failed, or the Start hook of the service was invoked
\* again between them.
C38_StopHookOnce ==
    \A i \in HookIdx, j \in HookIdx :
        (/\ i < j
         /\ hooks[i].hook = "Stop" /\ hooks[i].top = "Stop"
         /\ hooks[j].hook = "Stop" /\ hooks[j].top = "Stop"
         /\ hooks[i].name = hooks[j].name
         /\ hooks[i].ok)
        => \E h \in (i + 1)..(j - 1) :
              hooks[h].hook = "Start" /\ hooks[h].name = hooks[i].name

\* ------------------------------------------------- Resolve and End on one scope
\* Thread t is in scope.Resolve on scope s, at or after the call of the factory.
InScopeFactory(t, s) ==
    IF Idle(t) THEN FALSE
    ELSE /\ Top(t).fn = "ScopeResolve"
         /\ Top(t).scope = s
         /\ Top(t).pc \in {"factory", "factoryRet"}

\* Thread t is in the loop of scope.End on scope s.
InScopeEnd(t, s) ==
    IF Idle(t) THEN FALSE
    ELSE Top(t).fn = "ScopeEnd" /\ Top(t).scope = s /\ Top(t).pc = "dispose"

\* The invocations of Dispose on the instance inst.
DisposalsOf(inst) == {i \in HookIdx : DisposedAt(i) /\ hooks[i].inst = inst.id}

\* C39: (1) no step taken on an ended scope invokes a factory for it or gives it
\* an instance; (2) while an End call goes through the instances of a scope, no
\* thread is in a factory called by a Resolve on that scope; (3) once the scope is
\* ended, no thread is in such a factory, the scope holds no instance, and every
\* disposable instance that a Resolve call on it returned for a scoped name has
\* had Dispose invoked exactly once; (4) Dispose is invoked in End calls only.
C39_ScopedDisposedOnce ==
    /\ [][\A s \in ScopeIds :
            scopes[s].ended =>
                /\ \A n \in Names : factories'[<<s, n>>] = factories[<<s, n>>]
                /\ scopes'[s].instances = NoInstances]_vars
    /\ [](\A s \in ScopeIds, t1, t2 \in Threads :
            InScopeEnd(t1, s) => ~InScopeFactory(t2, s))
    /\ [](\A s \in ScopeIds :
            scopes[s].ended =>
                /\ \A t \in Threads : ~InScopeFactory(t, s)
                /\ scopes[s].instances = NoInstances
                /\ \A r \in ScopedResolved(s) :
                      Result(r).val.disp => Cardinality(DisposalsOf(Result(r).val)) = 1)
    /\ [](\A i \in HookIdx : DisposedAt(i) => hooks[i].top = "ScopeEnd")

\* Two threads have worked on one scope: one has resolved a scoped name to a
\* disposable instance, the other has ended the scope, disposing of the
\* instance, and a Resolve made on the ended scope has returned ScopeEnded.
C39_Witness ==
    \E s \in ScopeIds : \E r \in ScopedResolved(s), c \in FinishedEnds(s) :
        /\ r[1] # c[1]
        /\ Result(r).val.disp
        /\ Result(c).err # ErrScopeEnded
        /\ \E i \in DisposalsOf(Result(r).val) : InCall(i, c[1], c[2])
        /\ \E n \in Names : \E c2 \in FinishedInScope(s, n) : Result(c2).err = ErrScopeEnded

\* ------------------------------------------------- a failed ProvideConstructor
\* C40 as stated: a ProvideConstructor call that returns an error leaves the keys
\* of the type registry as they were before the call.
C40_FailedProvideChangesNothing ==
    [][(/\ Len(provided') = Len(provided) + 1
        /\ provided'[Len(provided')].err # NoErr)
       => typeRegistry'.services = typeRegistry.services]_vars

====
